---- MODULE Spec2Model ----
(***************************************************************************)
(* Friction-aware learning platform: the session state machine of          *)
(* FrictionAwareLearningPlatform (src/app.py), the friction scorer, the    *)
(* adaptation selector and the adaptation validator                        *)
(* (src/reasoning/adaptation.py), with the task units produced by          *)
(* ContentGenerator (src/content/generator.py).                            *)
(*                                                                         *)
(* Texts are held in the state as strings; Chars(t) gives the characters   *)
(* of a text, on which the string operations of the code (lower, strip,    *)
(* "in", split, translate) are computed.                                   *)
(***************************************************************************)
EXTENDS Integers, Sequences, FiniteSets, TLC

VARIABLES
    content_generated,      \* st.session_state.content_generated
    detected_device,        \* st.session_state.detected_device ("None" = key absent)
    signal_history,         \* st.session_state.signal_history
    friction_scores,        \* st.session_state.friction_scores
    current_adaptation,     \* st.session_state.current_adaptation ("None" = None)
    adaptation_history,     \* st.session_state.adaptation_history
    error_counts,           \* st.session_state.error_counts (absent key = 0)
    current_step_id,        \* st.session_state.current_step_id
    hint_used,              \* st.session_state["hint_used_<step>"] (absent key = FALSE)
    hint_counters,          \* st.session_state.hint_counters (absent key = 0)
    step_completion_times,  \* st.session_state.step_completion_times ("None" = absent)
    form_message,           \* st.success / st.error / st.warning of the answer form ("None" = none)
    pass_log,               \* history variable: the selector state after each answer
    pc,                     \* position of a harness; "session" in the session
    adaptation_text,        \* validate_adaptation: the argument adaptation
    is_valid,               \* validate_adaptation: the value returned
    explanation_style,      \* apply_adaptation: the argument explanation_style
    learning_step,          \* apply_adaptation: the unit passed in, as it is after the call
    adapted_step,           \* apply_adaptation: the unit returned
    oracle_response,        \* diagnose: what the call of the oracle delivers
    diagnosis               \* diagnose: the value returned, or the exception raised

vars == << content_generated, detected_device, signal_history, friction_scores,
           current_adaptation, adaptation_history, error_counts, current_step_id,
           hint_used, hint_counters, step_completion_times, form_message, pass_log, pc,
           adaptation_text, is_valid, explanation_style, learning_step, adapted_step,
           oracle_response, diagnosis >>

\* the variables of the session
session_vars ==
    << content_generated, detected_device, signal_history, friction_scores,
       current_adaptation, adaptation_history, error_counts, current_step_id,
       hint_used, hint_counters, step_completion_times, form_message, pass_log >>

\* the variables of the functions called outside the session
call_vars ==
    << adaptation_text, is_valid, explanation_style, learning_step, adapted_step,
       oracle_response, diagnosis >>

\* no function has been called
NoCall ==
    /\ adaptation_text = << >>
    /\ is_valid = "None"
    /\ explanation_style = "None"
    /\ learning_step = "None"
    /\ adapted_step = "None"
    /\ oracle_response = "None"
    /\ diagnosis = "None"

(***************************************************************************)
(* Characters of the texts of the program.                                 *)
(***************************************************************************)
Chars(t) ==
    CASE t = "" ->
         << >>
      [] t = "Simplifying layout for better accessibility" ->
         <<"S","i","m","p","l","i","f","y","i","n","g"," ","l","a","y","o","u","t"," ","f","o","r"," ","b","e","t","t","e","r"," ","a","c","c","e","s","s","i","b","i","l","i","t","y">>
      [] t = "Increasing text size and button targets" ->
         <<"I","n","c","r","e","a","s","i","n","g"," ","t","e","x","t"," ","s","i","z","e"," ","a","n","d"," ","b","u","t","t","o","n"," ","t","a","r","g","e","t","s">>
      [] t = "Optimizing content for different devices" ->
         <<"O","p","t","i","m","i","z","i","n","g"," ","c","o","n","t","e","n","t"," ","f","o","r"," ","d","i","f","f","e","r","e","n","t"," ","d","e","v","i","c","e","s">>
      [] t = "Breaking complex concepts into smaller parts" ->
         <<"B","r","e","a","k","i","n","g"," ","c","o","m","p","l","e","x"," ","c","o","n","c","e","p","t","s"," ","i","n","t","o"," ","s","m","a","l","l","e","r"," ","p","a","r","t","s">>
      [] t = "Adding more examples and step-by-step explanations" ->
         <<"A","d","d","i","n","g"," ","m","o","r","e"," ","e","x","a","m","p","l","e","s"," ","a","n","d"," ","s","t","e","p","-","b","y","-","s","t","e","p"," ","e","x","p","l","a","n","a","t","i","o","n","s">>
      [] t = "Providing visual aids and diagrams" ->
         <<"P","r","o","v","i","d","i","n","g"," ","v","i","s","u","a","l"," ","a","i","d","s"," ","a","n","d"," ","d","i","a","g","r","a","m","s">>
      [] t = "Adding progress indicators and milestones" ->
         <<"A","d","d","i","n","g"," ","p","r","o","g","r","e","s","s"," ","i","n","d","i","c","a","t","o","r","s"," ","a","n","d"," ","m","i","l","e","s","t","o","n","e","s">>
      [] t = "Providing encouraging feedback and reinforcement" ->
         <<"P","r","o","v","i","d","i","n","g"," ","e","n","c","o","u","r","a","g","i","n","g"," ","f","e","e","d","b","a","c","k"," ","a","n","d"," ","r","e","i","n","f","o","r","c","e","m","e","n","t">>
      [] t = "Breaking sessions into shorter, focused segments" ->
         <<"B","r","e","a","k","i","n","g"," ","s","e","s","s","i","o","n","s"," ","i","n","t","o"," ","s","h","o","r","t","e","r",","," ","f","o","c","u","s","e","d"," ","s","e","g","m","e","n","t","s">>
      [] t = "Simplifying interface and reducing cognitive load" ->
         <<"S","i","m","p","l","i","f","y","i","n","g"," ","i","n","t","e","r","f","a","c","e"," ","a","n","d"," ","r","e","d","u","c","i","n","g"," ","c","o","g","n","i","t","i","v","e"," ","l","o","a","d">>
      [] t = "Providing clearer instructions and expectations" ->
         <<"P","r","o","v","i","d","i","n","g"," ","c","l","e","a","r","e","r"," ","i","n","s","t","r","u","c","t","i","o","n","s"," ","a","n","d"," ","e","x","p","e","c","t","a","t","i","o","n","s">>
      [] t = "Adding immediate, actionable feedback" ->
         <<"A","d","d","i","n","g"," ","i","m","m","e","d","i","a","t","e",","," ","a","c","t","i","o","n","a","b","l","e"," ","f","e","e","d","b","a","c","k">>
      [] t = "Adding real-world examples and applications" ->
         <<"A","d","d","i","n","g"," ","r","e","a","l","-","w","o","r","l","d"," ","e","x","a","m","p","l","e","s"," ","a","n","d"," ","a","p","p","l","i","c","a","t","i","o","n","s">>
      [] t = "Connecting concepts to practical situations" ->
         <<"C","o","n","n","e","c","t","i","n","g"," ","c","o","n","c","e","p","t","s"," ","t","o"," ","p","r","a","c","t","i","c","a","l"," ","s","i","t","u","a","t","i","o","n","s">>
      [] t = "Providing context and relevance explanations" ->
         <<"P","r","o","v","i","d","i","n","g"," ","c","o","n","t","e","x","t"," ","a","n","d"," ","r","e","l","e","v","a","n","c","e"," ","e","x","p","l","a","n","a","t","i","o","n","s">>
      [] t = "A field that combines theory and practice for solving problems" ->
         <<"A"," ","f","i","e","l","d"," ","t","h","a","t"," ","c","o","m","b","i","n","e","s"," ","t","h","e","o","r","y"," ","a","n","d"," ","p","r","a","c","t","i","c","e"," ","f","o","r"," ","s","o","l","v","i","n","g"," ","p","r","o","b","l","e","m","s">>
      [] t = "Only theoretical concepts with no practical use" ->
         <<"O","n","l","y"," ","t","h","e","o","r","e","t","i","c","a","l"," ","c","o","n","c","e","p","t","s"," ","w","i","t","h"," ","n","o"," ","p","r","a","c","t","i","c","a","l"," ","u","s","e">>
      [] t = "A simple collection of facts to memorize" ->
         <<"A"," ","s","i","m","p","l","e"," ","c","o","l","l","e","c","t","i","o","n"," ","o","f"," ","f","a","c","t","s"," ","t","o"," ","m","e","m","o","r","i","z","e">>
      [] t = "A narrow specialty with limited applications" ->
         <<"A"," ","n","a","r","r","o","w"," ","s","p","e","c","i","a","l","t","y"," ","w","i","t","h"," ","l","i","m","i","t","e","d"," ","a","p","p","l","i","c","a","t","i","o","n","s">>
      [] t = "Building from foundational principles to complex applications" ->
         <<"B","u","i","l","d","i","n","g"," ","f","r","o","m"," ","f","o","u","n","d","a","t","i","o","n","a","l"," ","p","r","i","n","c","i","p","l","e","s"," ","t","o"," ","c","o","m","p","l","e","x"," ","a","p","p","l","i","c","a","t","i","o","n","s">>
      [] t = "Memorizing all technical terms immediately" ->
         <<"M","e","m","o","r","i","z","i","n","g"," ","a","l","l"," ","t","e","c","h","n","i","c","a","l"," ","t","e","r","m","s"," ","i","m","m","e","d","i","a","t","e","l","y">>
      [] t = "Avoiding practical application until mastery" ->
         <<"A","v","o","i","d","i","n","g"," ","p","r","a","c","t","i","c","a","l"," ","a","p","p","l","i","c","a","t","i","o","n"," ","u","n","t","i","l"," ","m","a","s","t","e","r","y">>
      [] t = "Focusing only on advanced topics from the start" ->
         <<"F","o","c","u","s","i","n","g"," ","o","n","l","y"," ","o","n"," ","a","d","v","a","n","c","e","d"," ","t","o","p","i","c","s"," ","f","r","o","m"," ","t","h","e"," ","s","t","a","r","t">>
      [] t = "By solving real-world problems through systematic approaches" ->
         <<"B","y"," ","s","o","l","v","i","n","g"," ","r","e","a","l","-","w","o","r","l","d"," ","p","r","o","b","l","e","m","s"," ","t","h","r","o","u","g","h"," ","s","y","s","t","e","m","a","t","i","c"," ","a","p","p","r","o","a","c","h","e","s">>
      [] t = "Only in academic research settings" ->
         <<"O","n","l","y"," ","i","n"," ","a","c","a","d","e","m","i","c"," ","r","e","s","e","a","r","c","h"," ","s","e","t","t","i","n","g","s">>
      [] t = "Through rigid procedures without adaptation" ->
         <<"T","h","r","o","u","g","h"," ","r","i","g","i","d"," ","p","r","o","c","e","d","u","r","e","s"," ","w","i","t","h","o","u","t"," ","a","d","a","p","t","a","t","i","o","n">>
      [] t = "Without considering practical constraints" ->
         <<"W","i","t","h","o","u","t"," ","c","o","n","s","i","d","e","r","i","n","g"," ","p","r","a","c","t","i","c","a","l"," ","c","o","n","s","t","r","a","i","n","t","s">>
      [] t = "Breaking down complex problems into manageable parts" ->
         <<"B","r","e","a","k","i","n","g"," ","d","o","w","n"," ","c","o","m","p","l","e","x"," ","p","r","o","b","l","e","m","s"," ","i","n","t","o"," ","m","a","n","a","g","e","a","b","l","e"," ","p","a","r","t","s">>
      [] t = "Accepting information without critical examination" ->
         <<"A","c","c","e","p","t","i","n","g"," ","i","n","f","o","r","m","a","t","i","o","n"," ","w","i","t","h","o","u","t"," ","c","r","i","t","i","c","a","l"," ","e","x","a","m","i","n","a","t","i","o","n">>
      [] t = "Avoiding different perspectives on problems" ->
         <<"A","v","o","i","d","i","n","g"," ","d","i","f","f","e","r","e","n","t"," ","p","e","r","s","p","e","c","t","i","v","e","s"," ","o","n"," ","p","r","o","b","l","e","m","s">>
      [] t = "Using only one method for all situations" ->
         <<"U","s","i","n","g"," ","o","n","l","y"," ","o","n","e"," ","m","e","t","h","o","d"," ","f","o","r"," ","a","l","l"," ","s","i","t","u","a","t","i","o","n","s">>
      [] t = "By building connections between related concepts and applications" ->
         <<"B","y"," ","b","u","i","l","d","i","n","g"," ","c","o","n","n","e","c","t","i","o","n","s"," ","b","e","t","w","e","e","n"," ","r","e","l","a","t","e","d"," ","c","o","n","c","e","p","t","s"," ","a","n","d"," ","a","p","p","l","i","c","a","t","i","o","n","s">>
      [] t = "By remaining completely isolated from other disciplines" ->
         <<"B","y"," ","r","e","m","a","i","n","i","n","g"," ","c","o","m","p","l","e","t","e","l","y"," ","i","s","o","l","a","t","e","d"," ","f","r","o","m"," ","o","t","h","e","r"," ","d","i","s","c","i","p","l","i","n","e","s">>
      [] t = "By dominating other fields without collaboration" ->
         <<"B","y"," ","d","o","m","i","n","a","t","i","n","g"," ","o","t","h","e","r"," ","f","i","e","l","d","s"," ","w","i","t","h","o","u","t"," ","c","o","l","l","a","b","o","r","a","t","i","o","n">>
      [] t = "By avoiding interdisciplinary approaches" ->
         <<"B","y"," ","a","v","o","i","d","i","n","g"," ","i","n","t","e","r","d","i","s","c","i","p","l","i","n","a","r","y"," ","a","p","p","r","o","a","c","h","e","s">>
      [] t = "Simplify " ->
         <<"S","i","m","p","l","i","f","y"," ">>
      [] t = "Add progress indicators " ->
         <<"A","d","d"," ","p","r","o","g","r","e","s","s"," ","i","n","d","i","c","a","t","o","r","s"," ">>
      [] t = "restructure " ->
         <<"r","e","s","t","r","u","c","t","u","r","e"," ">>
      [] t = "pacing" ->
         <<"p","a","c","i","n","g">>
      [] t = "FEEDBACK " ->
         <<"F","E","E","D","B","A","C","K"," ">>
      [] t = "Remov" ->
         <<"R","e","m","o","v">>
      [] t = "e" ->
         <<"e">>
      [] t = "always " ->
         <<"a","l","w","a","y","s"," ">>
      [] t = "timing " ->
         <<"t","i","m","i","n","g"," ">>
      [] t = "reduce the difficulty " ->
         <<"r","e","d","u","c","e"," ","t","h","e"," ","d","i","f","f","i","c","u","l","t","y"," ">>
      [] t = "Simplify the explanation and reduce difficulty" ->
         <<"S","i","m","p","l","i","f","y"," ","t","h","e"," ","e","x","p","l","a","n","a","t","i","o","n"," ","a","n","d"," ","r","e","d","u","c","e"," ","d","i","f","f","i","c","u","l","t","y">>
      [] t = "Add progress indicators and restructure pacing" ->
         <<"A","d","d"," ","p","r","o","g","r","e","s","s"," ","i","n","d","i","c","a","t","o","r","s"," ","a","n","d"," ","r","e","s","t","r","u","c","t","u","r","e"," ","p","a","c","i","n","g">>
      [] t = "pace" ->
         <<"p","a","c","e">>
      [] t = "time" ->
         <<"t","i","m","e">>
      [] t = "progress" ->
         <<"p","r","o","g","r","e","s","s">>
      [] t = "checkpoint" ->
         <<"c","h","e","c","k","p","o","i","n","t">>
      [] t = "structure" ->
         <<"s","t","r","u","c","t","u","r","e">>
      [] t = "break" ->
         <<"b","r","e","a","k">>
      [] t = "organize" ->
         <<"o","r","g","a","n","i","z","e">>
      [] t = "chunk" ->
         <<"c","h","u","n","k">>
      [] t = "sequence" ->
         <<"s","e","q","u","e","n","c","e">>
      [] t = "order" ->
         <<"o","r","d","e","r">>
      [] t = "arrange" ->
         <<"a","r","r","a","n","g","e">>
      [] t = "feedback" ->
         <<"f","e","e","d","b","a","c","k">>
      [] t = "hint" ->
         <<"h","i","n","t">>
      [] t = "confirm" ->
         <<"c","o","n","f","i","r","m">>
      [] t = "context" ->
         <<"c","o","n","t","e","x","t">>
      [] t = "frame" ->
         <<"f","r","a","m","e">>
      [] t = "relevance" ->
         <<"r","e","l","e","v","a","n","c","e">>
      [] t = "application" ->
         <<"a","p","p","l","i","c","a","t","i","o","n">>
      [] t = "example" ->
         <<"e","x","a","m","p","l","e">>
      [] t = "before" ->
         <<"b","e","f","o","r","e">>
      [] t = "Add visual organizers or concept maps" ->
         <<"A","d","d"," ","v","i","s","u","a","l"," ","o","r","g","a","n","i","z","e","r","s"," ","o","r"," ","c","o","n","c","e","p","t"," ","m","a","p","s">>
      [] t = "Add progress indicators and completion markers" ->
         <<"A","d","d"," ","p","r","o","g","r","e","s","s"," ","i","n","d","i","c","a","t","o","r","s"," ","a","n","d"," ","c","o","m","p","l","e","t","i","o","n"," ","m","a","r","k","e","r","s">>
      [] t = "Break complex step into smaller sub-steps" ->
         <<"B","r","e","a","k"," ","c","o","m","p","l","e","x"," ","s","t","e","p"," ","i","n","t","o"," ","s","m","a","l","l","e","r"," ","s","u","b","-","s","t","e","p","s">>
      [] t = "Connect to practical applications" ->
         <<"C","o","n","n","e","c","t"," ","t","o"," ","p","r","a","c","t","i","c","a","l"," ","a","p","p","l","i","c","a","t","i","o","n","s">>
      [] t = "Add confirmatory checks before submission" ->
         <<"A","d","d"," ","c","o","n","f","i","r","m","a","t","o","r","y"," ","c","h","e","c","k","s"," ","b","e","f","o","r","e"," ","s","u","b","m","i","s","s","i","o","n">>
      [] t = "Sequence from simple to complex examples" ->
         <<"S","e","q","u","e","n","c","e"," ","f","r","o","m"," ","s","i","m","p","l","e"," ","t","o"," ","c","o","m","p","l","e","x"," ","e","x","a","m","p","l","e","s">>
      [] t = "Provide immediate error prevention hints" ->
         <<"P","r","o","v","i","d","e"," ","i","m","m","e","d","i","a","t","e"," ","e","r","r","o","r"," ","p","r","e","v","e","n","t","i","o","n"," ","h","i","n","t","s">>
      [] t = "Sequence a worked example before practice" ->
         <<"S","e","q","u","e","n","c","e"," ","a"," ","w","o","r","k","e","d"," ","e","x","a","m","p","l","e"," ","b","e","f","o","r","e"," ","p","r","a","c","t","i","c","e">>
      [] t = "Provide estimated time reminders" ->
         <<"P","r","o","v","i","d","e"," ","e","s","t","i","m","a","t","e","d"," ","t","i","m","e"," ","r","e","m","i","n","d","e","r","s">>
      [] t = "Allow self-paced advancement" ->
         <<"A","l","l","o","w"," ","s","e","l","f","-","p","a","c","e","d"," ","a","d","v","a","n","c","e","m","e","n","t">>
      [] t = "Insert interim checkpoints" ->
         <<"I","n","s","e","r","t"," ","i","n","t","e","r","i","m"," ","c","h","e","c","k","p","o","i","n","t","s">>
      [] t = "Highlight key terms" ->
         <<"H","i","g","h","l","i","g","h","t"," ","k","e","y"," ","t","e","r","m","s">>
      [] t = "Organize content and add progress checkpoints" ->
         <<"O","r","g","a","n","i","z","e"," ","c","o","n","t","e","n","t"," ","a","n","d"," ","a","d","d"," ","p","r","o","g","r","e","s","s"," ","c","h","e","c","k","p","o","i","n","t","s">>
      [] t = "Reorder hints for context" ->
         <<"R","e","o","r","d","e","r"," ","h","i","n","t","s"," ","f","o","r"," ","c","o","n","t","e","x","t">>
      [] t = "Confirm relevance" ->
         <<"C","o","n","f","i","r","m"," ","r","e","l","e","v","a","n","c","e">>
      [] t = "Restructure the layout" ->
         <<"R","e","s","t","r","u","c","t","u","r","e"," ","t","h","e"," ","l","a","y","o","u","t">>
      [] t = "A list" ->
         <<"A"," ","l","i","s","t">>
      [] t = "a list" ->
         <<"a"," ","l","i","s","t">>
      [] t = " A List " ->
         <<" ","A"," ","L","i","s","t"," ">>
      [] t = "a list." ->
         <<"a"," ","l","i","s","t",".">>
      [] t = "list" ->
         <<"l","i","s","t">>
      [] t = "A tuple" ->
         <<"A"," ","t","u","p","l","e">>
      [] t = " " ->
         <<" ">>
      [] t = "an ordered list" ->
         <<"a","n"," ","o","r","d","e","r","e","d"," ","l","i","s","t">>
      [] t = "." ->
         <<".">>

(***************************************************************************)
(* String operations of Python used by the code.                           *)
(***************************************************************************)
Whitespace == {" ", "\t", "\n", "\r", "\f"}

\* string.punctuation (the backquote, which no text of the program contains
\* and the lexer of the tools does not accept in a string, is left out)
Punctuation ==
    {"!", "\"", "#", "$", "%", "&", "'", "(", ")", "*", "+", ",", "-", ".", "/",
     ":", ";", "<", "=", ">", "?", "@", "[", "\\", "]", "^", "_", "{", "|",
     "}", "~"}

UpperCase ==
    <<"A","B","C","D","E","F","G","H","I","J","K","L","M",
      "N","O","P","Q","R","S","T","U","V","W","X","Y","Z">>

LowerCase ==
    <<"a","b","c","d","e","f","g","h","i","j","k","l","m",
      "n","o","p","q","r","s","t","u","v","w","x","y","z">>

\* str.lower(), one character
lower_char(c) ==
    IF \E i \in DOMAIN UpperCase : UpperCase[i] = c
    THEN LowerCase[CHOOSE i \in DOMAIN UpperCase : UpperCase[i] = c]
    ELSE c

\* str.lower()
lower(s) == [i \in 1..Len(s) |-> lower_char(s[i])]

\* str.strip()
strip(s) ==
    LET keep == {i \in 1..Len(s) : s[i] \notin Whitespace}
    IN  IF keep = {} THEN << >>
        ELSE SubSeq(s, CHOOSE i \in keep : \A j \in keep : i <= j,
                       CHOOSE i \in keep : \A j \in keep : j <= i)

\* sub in s
contains(s, sub) ==
    \E i \in 0..(Len(s) - Len(sub)) : \A j \in 1..Len(sub) : s[i + j] = sub[j]

NotPunctuation(c) == c \notin Punctuation

\* s.translate(str.maketrans('', '', string.punctuation))
remove_punctuation(s) == SelectSeq(s, NotPunctuation)

\* set(s.split()): the maximal runs of non-whitespace characters
split_words(s) ==
    { SubSeq(s, i, j) : <<i, j>> \in
        { p \in (1..Len(s)) \X (1..Len(s)) :
            /\ p[1] <= p[2]
            /\ \A k \in p[1]..p[2] : s[k] \notin Whitespace
            /\ (p[1] = 1 \/ s[p[1] - 1] \in Whitespace)
            /\ (p[2] = Len(s) \/ s[p[2] + 1] \in Whitespace) } }

(***************************************************************************)
(* AdaptationMapper.validate_adaptation (src/reasoning/adaptation.py).     *)
(***************************************************************************)
invalid_indicators ==
    << <<"s","i","m","p","l","i","f","y">>,
       <<"m","a","k","e"," ","e","a","s","i","e","r">>,
       <<"r","e","d","u","c","e"," ","d","i","f","f","i","c","u","l","t","y">>,
       <<"r","e","m","o","v","e">>,
       <<"s","k","i","p">>,
       <<"a","v","o","i","d">>,
       <<"c","h","a","n","g","e"," ","a","n","s","w","e","r">>,
       <<"d","i","f","f","e","r","e","n","t"," ","s","o","l","u","t","i","o","n">>,
       <<"p","e","r","m","a","n","e","n","t">>,
       <<"a","l","w","a","y","s">>,
       <<"f","o","r","e","v","e","r">> >>
environment_terms ==
    << <<"p","r","e","s","e","n","t">>,
       <<"s","t","r","u","c","t","u","r","e">>,
       <<"p","a","c","e">>,
       <<"s","e","q","u","e","n","c","e">>,
       <<"f","o","r","m","a","t">>,
       <<"o","r","g","a","n","i","z","e">>,
       <<"t","i","m","i","n","g">>,
       <<"f","e","e","d","b","a","c","k">> >>

\* mutant: the terms are looked for in the text as written (no ".lower()")
validate_adaptation_chars_as_written(adaptation) ==
    IF \E k \in DOMAIN invalid_indicators : contains(adaptation, invalid_indicators[k])
    THEN FALSE
    ELSE \E k \in DOMAIN environment_terms : contains(adaptation, environment_terms[k])

\* the gate, on the characters of the text: no invalid indicator, and at least
\* one environment term
validate_adaptation_chars(adaptation) ==
    LET adaptation_lower == lower(adaptation)
    IN  IF \E k \in DOMAIN invalid_indicators :
               contains(adaptation_lower, invalid_indicators[k])
        THEN FALSE
        ELSE \E k \in DOMAIN environment_terms :
               contains(adaptation_lower, environment_terms[k])

\* the gate, on a text of the program
validate_adaptation(adaptation) == validate_adaptation_chars(Chars(adaptation))

(***************************************************************************)
(* Task units: ContentGenerator (src/content/generator.py).                *)
(***************************************************************************)
\* generate_learning_path: "for step_id in range(5)"
NumSteps == 5

StepIds == 0..(NumSteps - 1)

\* _generate_hints: the four hints of every step
NumHints == 4

\* the answers of _generate_definition_question, _generate_concept_question,
\* _generate_application_question, _generate_analysis_question and
\* _generate_synthesis_question; answers[0] is the correct one (the shuffle
\* changes the order on the screen only)
QuestionAnswers ==
    << << "A field that combines theory and practice for solving problems",
          "Only theoretical concepts with no practical use",
          "A simple collection of facts to memorize",
          "A narrow specialty with limited applications" >>,
       << "Building from foundational principles to complex applications",
          "Memorizing all technical terms immediately",
          "Avoiding practical application until mastery",
          "Focusing only on advanced topics from the start" >>,
       << "By solving real-world problems through systematic approaches",
          "Only in academic research settings",
          "Through rigid procedures without adaptation",
          "Without considering practical constraints" >>,
       << "Breaking down complex problems into manageable parts",
          "Accepting information without critical examination",
          "Avoiding different perspectives on problems",
          "Using only one method for all situations" >>,
       << "By building connections between related concepts and applications",
          "By remaining completely isolated from other disciplines",
          "By dominating other fields without collaboration",
          "By avoiding interdisciplinary approaches" >> >>

\* _generate_question: question_types[step_id % len(question_types)]
step_options(step_id) == QuestionAnswers[(step_id % Len(QuestionAnswers)) + 1]

step_correct_answer(step_id) == step_options(step_id)[1]

\* _get_difficulty
get_difficulty(step_id) ==
    IF step_id < 2 THEN "beginner"
    ELSE IF step_id < 4 THEN "intermediate"
    ELSE "advanced"

(***************************************************************************)
(* The two correctness checks.                                             *)
(***************************************************************************)
\* collect_post_step_signals: "is_correct = str(user_answer).strip().lower()
\*                             == str(correct_answer).strip().lower()"
strict_is_correct(user_answer, correct_answer) ==
    lower(strip(Chars(user_answer))) = lower(strip(Chars(correct_answer)))

\* mutant: the flexible check compares the answers without lower()
check_answer_flexible_case_sensitive(user_answer, correct_answer) ==
    IF Chars(user_answer) = << >> \/ Chars(correct_answer) = << >> THEN FALSE
    ELSE
    LET user_clean == strip(Chars(user_answer))
        correct_clean == strip(Chars(correct_answer))
        user_nopunct == remove_punctuation(user_clean)
        correct_nopunct == remove_punctuation(correct_clean)
        user_words == split_words(user_nopunct)
        correct_words == split_words(correct_nopunct)
    IN  IF user_clean = correct_clean THEN TRUE
        ELSE IF user_nopunct = correct_nopunct THEN TRUE
        ELSE IF /\ user_words # {} /\ correct_words # {}
                /\ Cardinality(user_words \cap correct_words) >= 2 THEN TRUE
        ELSE IF \/ contains(user_nopunct, correct_nopunct)
                \/ contains(correct_nopunct, user_nopunct) THEN TRUE
        ELSE FALSE

\* _check_answer_flexible
check_answer_flexible(user_answer, correct_answer) ==
    IF Chars(user_answer) = << >> \/ Chars(correct_answer) = << >> THEN FALSE
    ELSE
    LET user_clean == lower(strip(Chars(user_answer)))
        correct_clean == lower(strip(Chars(correct_answer)))
        user_nopunct == remove_punctuation(user_clean)
        correct_nopunct == remove_punctuation(correct_clean)
        user_words == split_words(user_nopunct)
        correct_words == split_words(correct_nopunct)
    IN  IF user_clean = correct_clean THEN TRUE
        ELSE IF user_nopunct = correct_nopunct THEN TRUE
        ELSE IF /\ user_words # {} /\ correct_words # {}
                /\ Cardinality(user_words \cap correct_words) >= 2 THEN TRUE
        ELSE IF \/ contains(user_nopunct, correct_nopunct)
                \/ contains(correct_nopunct, user_nopunct) THEN TRUE
        ELSE FALSE

\* the two checks on the answers a step offers
signal_correct_of(s) ==
    LET options == step_options(s)
    IN  << strict_is_correct(options[1], step_correct_answer(s)),
           strict_is_correct(options[2], step_correct_answer(s)),
           strict_is_correct(options[3], step_correct_answer(s)),
           strict_is_correct(options[4], step_correct_answer(s)) >>

flexible_correct_of(s) ==
    LET options == step_options(s)
    IN  << check_answer_flexible(options[1], step_correct_answer(s)),
           check_answer_flexible(options[2], step_correct_answer(s)),
           check_answer_flexible(options[3], step_correct_answer(s)),
           check_answer_flexible(options[4], step_correct_answer(s)) >>

\* the same, computed once for the five steps (indexed by step_id + 1)
SignalCorrect ==
    << signal_correct_of(0), signal_correct_of(1), signal_correct_of(2),
       signal_correct_of(3), signal_correct_of(4) >>

FlexibleCorrect ==
    << flexible_correct_of(0), flexible_correct_of(1), flexible_correct_of(2),
       flexible_correct_of(3), flexible_correct_of(4) >>

\* mutant: an incorrect submission is counted in its own retry_count
collect_post_step_signals_counting_itself(step_id, is_correct, interaction_time, hint, step_difficulty, retry_count, current_latency, device_type) ==
    [ step_id          |-> step_id,
      step_difficulty  |-> step_difficulty,
      interaction_time |-> interaction_time,
      correct          |-> is_correct,
      hint_used        |-> hint,
      retry_count      |-> IF is_correct THEN retry_count ELSE retry_count + 1,
      network_latency  |-> current_latency,
      device_type      |-> device_type ]

(***************************************************************************)
(* Signals: SignalCollector.collect_post_step_signals                      *)
(* (src/signals/collector.py).  Times are whole seconds, latencies are     *)
(* hundredths of a second.  The fields no decision reads (timestamp,       *)
(* total_time, time_to_first_action, response_pattern, session_duration)   *)
(* are left out.                                                           *)
(***************************************************************************)
collect_post_step_signals(step_id, is_correct, interaction_time, hint, step_difficulty, retry_count, current_latency, device_type) ==
    [ step_id          |-> step_id,
      step_difficulty  |-> step_difficulty,
      interaction_time |-> interaction_time,
      correct          |-> is_correct,
      hint_used        |-> hint,
      retry_count      |-> retry_count,
      network_latency  |-> current_latency,
      device_type      |-> device_type ]

(***************************************************************************)
(* Friction scores: _update_friction_scores (src/app.py).                  *)
(*                                                                         *)
(* A score is a Python float.  It is held as an integer: the exact value   *)
(* in thirtieths (every quotient of the code is a multiple of 1/30) times  *)
(* Thirtieth, plus the number of units in the last place by which the      *)
(* double the code computes differs from the double nearest to the exact   *)
(* value.  The order and the equality of these integers are the order and  *)
(* the equality of the floats.                                             *)
(***************************************************************************)
FrictionTypes ==
    << "Access friction",
       "Cognitive load friction",
       "Regulation & motivation friction",
       "Interaction & feedback friction",
       "Transfer & meaning friction" >>

FrictionTypeSet == { FrictionTypes[i] : i \in DOMAIN FrictionTypes }

\* one thirtieth of a score, in the units scores are held in
Thirtieth == 4

\* the float 1.0
ScoreOne == 30 * Thirtieth

\* the scores of _init_session_state, and the "Reset scores" of the scorer
ZeroScores == [f \in FrictionTypeSet |-> 0]

Min(a, b) == IF a <= b THEN a ELSE b

RECURSIVE Sum(_, _)
\* sum of f[i] over the set S of indices
Sum(f, S) ==
    IF S = {} THEN 0
    ELSE LET i == CHOOSE x \in S : TRUE IN f[i] + Sum(f, S \ {i})

\* "signal_history[-5:] if len(signal_history) >= 5 else signal_history"
WindowSize == 5

\* mutant: the scorer reads the last three signals, as the clearing rule does
recent_window_three(history) ==
    IF Len(history) >= 3 THEN SubSeq(history, Len(history) - 2, Len(history))
    ELSE history

recent_window(history) ==
    IF Len(history) >= WindowSize
    THEN SubSeq(history, Len(history) - WindowSize + 1, Len(history))
    ELSE history

\* "signal.get('network_latency', 0) > 0.3", in hundredths of a second
HighLatency == 30

\* 1. Access friction: min(1.0, access_indicators / 3), the indicators being
\* 1 per high latency and 0.5 per mobile or tablet signal
access_friction(recent_signals) ==
    LET high_latency(s) == s.network_latency > HighLatency
        small_device(s) == s.device_type \in {"mobile", "tablet"}
        \* access_indicators, in halves
        access_halves == 2 * Cardinality({i \in DOMAIN recent_signals : high_latency(recent_signals[i])})
                           + Cardinality({i \in DOMAIN recent_signals : small_device(recent_signals[i])})
    IN  Min(ScoreOne, access_halves * 5 * Thirtieth)

\* "if response_times[i] >= response_times[i+1]: increasing = False"
increasing_trend(response_times) ==
    \A i \in 1..(Len(response_times) - 1) : response_times[i] < response_times[i + 1]

\* "avg_time = sum(response_times) / len(response_times); if avg_time > 45"
HighAverageTime == 45

high_average(response_times) ==
    Sum(response_times, DOMAIN response_times) > HighAverageTime * Len(response_times)

\* The rounding of "cognitive_indicators = 0; += 1.5; += 1; += error_count * 0.3;
\* += hint_count * 0.4; min(1.0, cognitive_indicators / 3)" in IEEE doubles: the
\* units in the last place between the result and the double nearest to the
\* exact value, by [increasing][high average][error_count + 1][hint_count + 1]
CognitiveRounding ==
    << << << << 0, 0, 0, 1, 0, 0>>, <<-1,-1, 1, 1, 1,-1>>, <<-1, 0,-1, 1, 1, 0>>,
             << 0,-1, 0, 1, 0, 0>>, <<-1, 0, 0, 1,-1, 0>>, << 0, 0,-1, 0, 0, 0>> >>,
          << << 0,-1, 0, 1, 0, 0>>, << 0, 1, 1, 0, 1, 0>>, << 0, 0, 1, 1, 0, 0>>,
             << 0,-1, 0, 0, 0, 0>>, << 1, 0, 0, 0, 0, 0>>, << 0, 0, 0, 0, 0, 0>> >> >>,
       << << << 0, 0,-1, 0, 0, 0>>, << 0, 1, 0, 0, 0, 0>>, << 1, 0, 1, 0, 0, 0>>,
             <<-1,-1, 0, 0, 0, 0>>, << 0, 0, 0, 0, 0, 0>>, << 0, 0, 0, 0, 0, 0>> >>,
          << << 0, 0, 0, 0, 0, 0>>, <<-1, 0, 0, 0, 0, 0>>, << 0, 0, 0, 0, 0, 0>>,
             << 0, 0, 0, 0, 0, 0>>, << 0, 0, 0, 0, 0, 0>>, << 0, 0, 0, 0, 0, 0>> >> >> >>

\* mutant: the trend test lets equal times pass ("<=" for "<")
cognitive_load_friction_nonstrict(recent_signals) ==
    LET response_times == [i \in DOMAIN recent_signals |->
                              recent_signals[i].interaction_time]
        increasing == /\ Len(response_times) >= 2
                      /\ \A i \in 1..(Len(response_times) - 1) :
                            response_times[i] <= response_times[i + 1]
        high_avg == Len(response_times) >= 2 /\ high_average(response_times)
        is_error(s) == ~s.correct
        used_hint(s) == s.hint_used
        error_count == Cardinality({i \in DOMAIN recent_signals : is_error(recent_signals[i])})
        hint_count == Cardinality({i \in DOMAIN recent_signals : used_hint(recent_signals[i])})
        cognitive_tenths == (IF increasing THEN 15 ELSE 0) + (IF high_avg THEN 10 ELSE 0)
                              + 3 * error_count + 4 * hint_count
    IN  Min(ScoreOne, cognitive_tenths * Thirtieth)
          + CognitiveRounding[IF increasing THEN 2 ELSE 1][IF high_avg THEN 2 ELSE 1]
                             [error_count + 1][hint_count + 1]

\* 2. Cognitive load friction: min(1.0, cognitive_indicators / 3)
cognitive_load_friction(recent_signals) ==
    LET response_times == [i \in DOMAIN recent_signals |->
                              recent_signals[i].interaction_time]
        increasing == Len(response_times) >= 2 /\ increasing_trend(response_times)
        high_avg == Len(response_times) >= 2 /\ high_average(response_times)
        is_error(s) == ~s.correct
        used_hint(s) == s.hint_used
        error_count == Cardinality({i \in DOMAIN recent_signals : is_error(recent_signals[i])})
        hint_count == Cardinality({i \in DOMAIN recent_signals : used_hint(recent_signals[i])})
        \* cognitive_indicators, in tenths: 1.5, 1, 0.3 per error, 0.4 per hint
        cognitive_tenths == (IF increasing THEN 15 ELSE 0) + (IF high_avg THEN 10 ELSE 0)
                              + 3 * error_count + 4 * hint_count
    IN  Min(ScoreOne, cognitive_tenths * Thirtieth)
          + CognitiveRounding[IF increasing THEN 2 ELSE 1][IF high_avg THEN 2 ELSE 1]
                             [error_count + 1][hint_count + 1]

\* "s.get('interaction_time', 0) < 10 and not s.get('correct', True)"
AbandonmentTime == 10

\* "max(response_times) > 90"
VeryLongTime == 90

\* mutant: an answer counts as abandoned below 5 seconds ("< 5" for "< 10")
motivation_friction_short_abandonment(recent_signals) ==
    LET abandoned(s) == s.interaction_time < 5 /\ ~s.correct
        very_long(s) == s.interaction_time > VeryLongTime
        motivation_indicators ==
            Cardinality({i \in DOMAIN recent_signals : abandoned(recent_signals[i])})
              + (IF \E i \in DOMAIN recent_signals : very_long(recent_signals[i])
                 THEN 1 ELSE 0)
    IN  Min(ScoreOne, motivation_indicators * 15 * Thirtieth)

\* mutant: the clamp "min(1.0, ...)" is missing
motivation_friction_unclamped(recent_signals) ==
    LET abandoned(s) == s.interaction_time < AbandonmentTime /\ ~s.correct
        very_long(s) == s.interaction_time > VeryLongTime
        motivation_indicators ==
            Cardinality({i \in DOMAIN recent_signals : abandoned(recent_signals[i])})
              + (IF \E i \in DOMAIN recent_signals : very_long(recent_signals[i])
                 THEN 1 ELSE 0)
    IN  motivation_indicators * 15 * Thirtieth

\* 3. Regulation & motivation friction: min(1.0, motivation_indicators / 2)
motivation_friction(recent_signals) ==
    LET abandoned(s) == s.interaction_time < AbandonmentTime /\ ~s.correct
        very_long(s) == s.interaction_time > VeryLongTime
        motivation_indicators ==
            Cardinality({i \in DOMAIN recent_signals : abandoned(recent_signals[i])})
              + (IF \E i \in DOMAIN recent_signals : very_long(recent_signals[i])
                 THEN 1 ELSE 0)
    IN  Min(ScoreOne, motivation_indicators * 15 * Thirtieth)

\* mutant: a step counts with exactly two errors ("== 2" for ">= 2")
interaction_friction_exactly_two(recent_signals) ==
    LET step_error_count(step) ==
            Cardinality({i \in DOMAIN recent_signals :
                           /\ recent_signals[i].step_id = step
                           /\ ~recent_signals[i].correct})
        interaction_indicators ==
            Cardinality({step \in {recent_signals[i].step_id : i \in DOMAIN recent_signals} :
                           step_error_count(step) = 2})
    IN  Min(ScoreOne, interaction_indicators * 15 * Thirtieth)

\* 4. Interaction & feedback friction: min(1.0, interaction_indicators / 2),
\* one indicator per step with two or more errors among the recent signals
interaction_friction(recent_signals) ==
    LET step_error_count(step) ==
            Cardinality({i \in DOMAIN recent_signals :
                           /\ recent_signals[i].step_id = step
                           /\ ~recent_signals[i].correct})
        interaction_indicators ==
            Cardinality({step \in {recent_signals[i].step_id : i \in DOMAIN recent_signals} :
                           step_error_count(step) >= 2})
    IN  Min(ScoreOne, interaction_indicators * 15 * Thirtieth)

\* "if len(st.session_state.signal_history) >= 4"
TransferMinSignals == 4

\* mutant: the accuracies are taken on the last five signals, as the other
\* four dimensions are
transfer_friction_on_window(history) ==
    LET recent_signals == recent_window(history)
        beginner == {i \in DOMAIN recent_signals :
                       recent_signals[i].step_difficulty = "beginner"}
        intermediate == {i \in DOMAIN recent_signals :
                           recent_signals[i].step_difficulty = "intermediate"}
        beginner_correct == Cardinality({i \in beginner : recent_signals[i].correct})
        intermediate_correct ==
            Cardinality({i \in intermediate : recent_signals[i].correct})
        transfer_indicators ==
            IF /\ Len(history) >= TransferMinSignals
               /\ beginner # {} /\ intermediate # {}
               /\ 10 * beginner_correct > 7 * Cardinality(beginner)
               /\ 10 * intermediate_correct < 4 * Cardinality(intermediate)
            THEN 1 ELSE 0
    IN  Min(ScoreOne, transfer_indicators * ScoreOne)

\* 5. Transfer & meaning friction, on the whole history:
\* "beginner_acc > 0.7 and intermediate_acc < 0.4"
transfer_friction(history) ==
    LET beginner == {i \in DOMAIN history : history[i].step_difficulty = "beginner"}
        intermediate == {i \in DOMAIN history :
                           history[i].step_difficulty = "intermediate"}
        beginner_correct == Cardinality({i \in beginner : history[i].correct})
        intermediate_correct == Cardinality({i \in intermediate : history[i].correct})
        transfer_indicators ==
            IF /\ Len(history) >= TransferMinSignals
               /\ beginner # {} /\ intermediate # {}
               /\ 10 * beginner_correct > 7 * Cardinality(beginner)
               /\ 10 * intermediate_correct < 4 * Cardinality(intermediate)
            THEN 1 ELSE 0
    IN  Min(ScoreOne, transfer_indicators * ScoreOne)

\* the new value of friction_scores: unchanged below two signals
update_friction_scores(history, old_scores) ==
    IF Len(history) < 2 THEN old_scores
    ELSE LET recent_signals == recent_window(history)
         IN  ("Access friction" :> access_friction(recent_signals))
               @@ ("Cognitive load friction" :> cognitive_load_friction(recent_signals))
               @@ ("Regulation & motivation friction" :>
                       motivation_friction(recent_signals))
               @@ ("Interaction & feedback friction" :>
                       interaction_friction(recent_signals))
               @@ ("Transfer & meaning friction" :> transfer_friction(history))

(***************************************************************************)
(* Adaptation selection: _get_adaptation_for_friction, _diagnose_and_adapt *)
(* and _evaluate_and_clear_adaptation (src/app.py).                        *)
(***************************************************************************)
\* the adaptations table, by friction type in the order of FrictionTypes
Adaptations ==
    << << "Simplifying layout for better accessibility",
          "Increasing text size and button targets",
          "Optimizing content for different devices" >>,
       << "Breaking complex concepts into smaller parts",
          "Adding more examples and step-by-step explanations",
          "Providing visual aids and diagrams" >>,
       << "Adding progress indicators and milestones",
          "Providing encouraging feedback and reinforcement",
          "Breaking sessions into shorter, focused segments" >>,
       << "Simplifying interface and reducing cognitive load",
          "Providing clearer instructions and expectations",
          "Adding immediate, actionable feedback" >>,
       << "Adding real-world examples and applications",
          "Connecting concepts to practical situations",
          "Providing context and relevance explanations" >> >>

\* "adaptation_list = adaptations.get(friction_type, []); return adaptation_list[0]"
get_adaptation_for_friction(friction_type) ==
    IF \E i \in DOMAIN FrictionTypes : FrictionTypes[i] = friction_type
    THEN LET adaptation_list ==
                 Adaptations[CHOOSE i \in DOMAIN FrictionTypes :
                                FrictionTypes[i] = friction_type]
         IN  IF Len(adaptation_list) > 0 THEN adaptation_list[1] ELSE "None"
    ELSE "None"

\* mutant: on a tie the last friction type of the dict wins
max_friction_last(scores) ==
    FrictionTypes[CHOOSE i \in DOMAIN FrictionTypes :
                    /\ \A j \in DOMAIN FrictionTypes :
                          scores[FrictionTypes[j]] <= scores[FrictionTypes[i]]
                    /\ \A j \in (i + 1)..Len(FrictionTypes) :
                          scores[FrictionTypes[j]] < scores[FrictionTypes[i]]]

\* "max(scores.items(), key=lambda x: x[1])": the first friction type, in the
\* order of the dict, whose score no other exceeds
max_friction(scores) ==
    FrictionTypes[CHOOSE i \in DOMAIN FrictionTypes :
                    /\ \A j \in DOMAIN FrictionTypes :
                          scores[FrictionTypes[j]] <= scores[FrictionTypes[i]]
                    /\ \A j \in 1..(i - 1) :
                          scores[FrictionTypes[j]] < scores[FrictionTypes[i]]]

\* "if friction_score > 0.4": the float 0.4 is the double nearest to 12/30
AdaptThreshold == 12 * Thirtieth

\* the record appended by _diagnose_and_adapt (the timestamp and the percentage
\* in the reason are left out)
applied_record(friction_type, friction_score, adaptation) ==
    [ friction_type  |-> friction_type,
      friction_score |-> friction_score,
      adaptation     |-> adaptation,
      reason         |-> << "High", friction_type, "detected" >> ]

\* the record appended by _evaluate_and_clear_adaptation
cleared_record(adaptation) ==
    [ action     |-> "cleared",
      adaptation |-> adaptation,
      reason     |-> "Improved performance" ]

\* mutant: the threshold of the completion screen, 0.3, for 0.4
diagnose_and_adapt_low_threshold(history, scores, adaptation_now, records) ==
    LET unchanged == [current_adaptation |-> adaptation_now,
                      adaptation_history |-> records]
    IN  IF Len(history) < 2 THEN unchanged
        ELSE LET friction_type == max_friction(scores)
                 friction_score == scores[friction_type]
             IN  IF friction_score > 9 * Thirtieth
                 THEN LET adaptation == get_adaptation_for_friction(friction_type)
                      IN  IF adaptation # "None"
                          THEN [current_adaptation |-> adaptation,
                                adaptation_history |->
                                    Append(records,
                                           applied_record(friction_type, friction_score,
                                                          adaptation))]
                          ELSE unchanged
                 ELSE unchanged

\* _diagnose_and_adapt: the new current_adaptation and adaptation_history
diagnose_and_adapt(history, scores, adaptation_now, records) ==
    LET unchanged == [current_adaptation |-> adaptation_now,
                      adaptation_history |-> records]
    IN  IF Len(history) < 2 THEN unchanged
        ELSE LET friction_type == max_friction(scores)
                 friction_score == scores[friction_type]
             IN  IF friction_score > AdaptThreshold
                 THEN LET adaptation == get_adaptation_for_friction(friction_type)
                      IN  IF adaptation # "None"
                          THEN [current_adaptation |-> adaptation,
                                adaptation_history |->
                                    Append(records,
                                           applied_record(friction_type, friction_score,
                                                          adaptation))]
                          ELSE unchanged
                 ELSE unchanged

\* "recent_signals = st.session_state.signal_history[-3:]"
ClearWindow == 3

\* mutant: the cleared record is appended and current_adaptation is kept
evaluate_and_clear_keeps_adaptation(history, adaptation_now, records) ==
    LET unchanged == [current_adaptation |-> adaptation_now,
                      adaptation_history |-> records]
    IN  IF adaptation_now # "None" /\ Len(history) >= ClearWindow
        THEN LET recent_signals == SubSeq(history, Len(history) - ClearWindow + 1,
                                          Len(history))
                 is_error(s) == ~s.correct
                 errors == Cardinality({i \in DOMAIN recent_signals : is_error(recent_signals[i])})
             IN  IF errors = 0
                 THEN [current_adaptation |-> adaptation_now,
                       adaptation_history |->
                           Append(records, cleared_record(adaptation_now))]
                 ELSE unchanged
        ELSE unchanged

\* mutant: one error among the last three answers is let pass ("<= 1" for "== 0")
evaluate_and_clear_tolerant(history, adaptation_now, records) ==
    LET unchanged == [current_adaptation |-> adaptation_now,
                      adaptation_history |-> records]
    IN  IF adaptation_now # "None" /\ Len(history) >= ClearWindow
        THEN LET recent_signals == SubSeq(history, Len(history) - ClearWindow + 1,
                                          Len(history))
                 is_error(s) == ~s.correct
                 errors == Cardinality({i \in DOMAIN recent_signals : is_error(recent_signals[i])})
             IN  IF errors <= 1
                 THEN [current_adaptation |-> "None",
                       adaptation_history |->
                           Append(records, cleared_record(adaptation_now))]
                 ELSE unchanged
        ELSE unchanged

\* mutant: the record of the active adaptation is overwritten by the cleared record
evaluate_and_clear_overwrites(history, adaptation_now, records) ==
    LET unchanged == [current_adaptation |-> adaptation_now,
                      adaptation_history |-> records]
    IN  IF adaptation_now # "None" /\ Len(history) >= ClearWindow
        THEN LET recent_signals == SubSeq(history, Len(history) - ClearWindow + 1,
                                          Len(history))
                 is_error(s) == ~s.correct
                 errors == Cardinality({i \in DOMAIN recent_signals : is_error(recent_signals[i])})
             IN  IF errors = 0
                 THEN [current_adaptation |-> "None",
                       adaptation_history |->
                           [records EXCEPT ![Len(records)] = cleared_record(adaptation_now)]]
                 ELSE unchanged
        ELSE unchanged

\* _evaluate_and_clear_adaptation: the new current_adaptation and adaptation_history
evaluate_and_clear_adaptation(history, adaptation_now, records) ==
    LET unchanged == [current_adaptation |-> adaptation_now,
                      adaptation_history |-> records]
    IN  IF adaptation_now # "None" /\ Len(history) >= ClearWindow
        THEN LET recent_signals == SubSeq(history, Len(history) - ClearWindow + 1,
                                          Len(history))
                 is_error(s) == ~s.correct
                 errors == Cardinality({i \in DOMAIN recent_signals : is_error(recent_signals[i])})
             IN  IF errors = 0
                 THEN [current_adaptation |-> "None",
                       adaptation_history |->
                           Append(records, cleared_record(adaptation_now))]
                 ELSE unchanged
        ELSE unchanged

(***************************************************************************)
(* The session: FrictionAwareLearningPlatform (src/app.py).                *)
(***************************************************************************)
\* bounds of the model: the answers of a session, the hints taken on a step
MaxSignals == 6

MaxHintsPerStep == 1

\* the steps on which the learner asks for hints
HintSteps == {0}

\* what the clock and the network probe deliver with an answer:
\* << interaction_time in seconds, latency in hundredths of a second >>
Observations == { <<4, 20>>, <<50, 50>> }

\* the options the learner picks: the correct answer and a wrong one (the two
\* checks judge the three wrong options of a step alike)
AnswerChoices == {1, 2}

\* what the device detection delivers
DeviceTypes == {"desktop", "mobile"}

\* _init_session_state
Init ==
    /\ content_generated = FALSE
    /\ detected_device = "None"
    /\ signal_history = << >>
    /\ friction_scores = ZeroScores
    /\ current_adaptation = "None"
    /\ adaptation_history = << >>
    /\ error_counts = [s \in StepIds |-> 0]
    /\ current_step_id = 0
    /\ hint_used = [s \in StepIds |-> FALSE]
    /\ hint_counters = [s \in StepIds |-> 0]
    /\ step_completion_times = [s \in StepIds |-> "None"]
    /\ form_message = "None"
    /\ pass_log = << >>
    /\ pc = "session"
    /\ NoCall

\* _render_content_generation, and the first run of _render_learning_experience,
\* in which collect_pre_step_signals detects the device
GenerateContent(device) ==
    /\ pc = "session"
    /\ ~content_generated
    /\ content_generated' = TRUE
    /\ detected_device' = device
    /\ form_message' = "None"
    /\ UNCHANGED << signal_history, friction_scores, current_adaptation,
                    adaptation_history, error_counts, current_step_id, hint_used,
                    hint_counters, step_completion_times, pass_log, pc >>
    /\ UNCHANGED call_vars

\* mutant: the selector decides on the vector of the previous pass
SubmitAnswerStaleVector(o, interaction_time, latency) ==
    /\ pc = "session"
    /\ content_generated
    /\ current_step_id < NumSteps
    /\ Len(signal_history) < MaxSignals
    /\ LET step == current_step_id
           signals == collect_post_step_signals(
                          step, SignalCorrect[step + 1][o], interaction_time,
                          hint_used[step], get_difficulty(step), error_counts[step],
                          latency, detected_device)
           history == Append(signal_history, signals)
           scores == update_friction_scores(history, friction_scores)
           is_correct == FlexibleCorrect[step + 1][o]
       IN  /\ signal_history' = history
           /\ friction_scores' = scores
           /\ IF is_correct
              THEN LET cleared == evaluate_and_clear_adaptation(
                                      history, current_adaptation, adaptation_history)
                   IN  /\ step_completion_times' =
                              [step_completion_times EXCEPT ![step] = interaction_time]
                       /\ hint_used' = [hint_used EXCEPT ![step] = FALSE]
                       /\ hint_counters' = [hint_counters EXCEPT ![step] = 0]
                       /\ current_adaptation' = cleared.current_adaptation
                       /\ adaptation_history' = cleared.adaptation_history
                       /\ current_step_id' = current_step_id + 1
                       /\ UNCHANGED error_counts
              ELSE LET adapted == IF Len(history) >= 2
                                  THEN diagnose_and_adapt(history, friction_scores,
                                                          current_adaptation,
                                                          adaptation_history)
                                  ELSE [current_adaptation |-> current_adaptation,
                                        adaptation_history |-> adaptation_history]
                   IN  /\ error_counts' = [error_counts EXCEPT ![step] = @ + 1]
                       /\ current_adaptation' = adapted.current_adaptation
                       /\ adaptation_history' = adapted.adaptation_history
                       /\ UNCHANGED << step_completion_times, hint_used, hint_counters,
                                       current_step_id >>
    /\ pass_log' = Append(pass_log, [current_adaptation |-> current_adaptation',
                                     records |-> Len(adaptation_history')])
    /\ form_message' = IF FlexibleCorrect[current_step_id + 1][o] THEN "success" ELSE "error"
    /\ UNCHANGED << content_generated, detected_device, pc >>
    /\ UNCHANGED call_vars

\* mutant: the step advances after an incorrect answer as well
SubmitAnswerAdvancesAlways(o, interaction_time, latency) ==
    /\ pc = "session"
    /\ content_generated
    /\ current_step_id < NumSteps
    /\ Len(signal_history) < MaxSignals
    /\ LET step == current_step_id
           signals == collect_post_step_signals(
                          step, SignalCorrect[step + 1][o], interaction_time,
                          hint_used[step], get_difficulty(step), error_counts[step],
                          latency, detected_device)
           history == Append(signal_history, signals)
           scores == update_friction_scores(history, friction_scores)
           is_correct == FlexibleCorrect[step + 1][o]
       IN  /\ signal_history' = history
           /\ friction_scores' = scores
           /\ IF is_correct
              THEN LET cleared == evaluate_and_clear_adaptation(
                                      history, current_adaptation, adaptation_history)
                   IN  /\ step_completion_times' =
                              [step_completion_times EXCEPT ![step] = interaction_time]
                       /\ hint_used' = [hint_used EXCEPT ![step] = FALSE]
                       /\ hint_counters' = [hint_counters EXCEPT ![step] = 0]
                       /\ current_adaptation' = cleared.current_adaptation
                       /\ adaptation_history' = cleared.adaptation_history
                       /\ current_step_id' = current_step_id + 1
                       /\ UNCHANGED error_counts
              ELSE LET adapted == IF Len(history) >= 2
                                  THEN diagnose_and_adapt(history, scores,
                                                          current_adaptation,
                                                          adaptation_history)
                                  ELSE [current_adaptation |-> current_adaptation,
                                        adaptation_history |-> adaptation_history]
                   IN  /\ error_counts' = [error_counts EXCEPT ![step] = @ + 1]
                       /\ current_adaptation' = adapted.current_adaptation
                       /\ adaptation_history' = adapted.adaptation_history
                       /\ current_step_id' = current_step_id + 1
                       /\ UNCHANGED << step_completion_times, hint_used, hint_counters >>
    /\ pass_log' = Append(pass_log, [current_adaptation |-> current_adaptation',
                                     records |-> Len(adaptation_history')])
    /\ form_message' = IF FlexibleCorrect[current_step_id + 1][o] THEN "success" ELSE "error"
    /\ UNCHANGED << content_generated, detected_device, pc >>
    /\ UNCHANGED call_vars

\* _render_learning_experience, "if submitted:" with an answer chosen: option o of
\* the current step, after interaction_time seconds, at the measured latency
SubmitAnswer(o, interaction_time, latency) ==
    /\ pc = "session"
    /\ content_generated
    /\ current_step_id < NumSteps
    /\ Len(signal_history) < MaxSignals
    /\ LET step == current_step_id
           signals == collect_post_step_signals(
                          step, SignalCorrect[step + 1][o], interaction_time,
                          hint_used[step], get_difficulty(step), error_counts[step],
                          latency, detected_device)
           history == Append(signal_history, signals)
           scores == update_friction_scores(history, friction_scores)
           is_correct == FlexibleCorrect[step + 1][o]
       IN  /\ signal_history' = history
           /\ friction_scores' = scores
           /\ IF is_correct
              THEN LET cleared == evaluate_and_clear_adaptation(
                                      history, current_adaptation, adaptation_history)
                   IN  /\ step_completion_times' =
                              [step_completion_times EXCEPT ![step] = interaction_time]
                       /\ hint_used' = [hint_used EXCEPT ![step] = FALSE]
                       /\ hint_counters' = [hint_counters EXCEPT ![step] = 0]
                       /\ current_adaptation' = cleared.current_adaptation
                       /\ adaptation_history' = cleared.adaptation_history
                       /\ current_step_id' = current_step_id + 1
                       /\ UNCHANGED error_counts
              ELSE LET adapted == IF Len(history) >= 2
                                  THEN diagnose_and_adapt(history, scores,
                                                          current_adaptation,
                                                          adaptation_history)
                                  ELSE [current_adaptation |-> current_adaptation,
                                        adaptation_history |-> adaptation_history]
                   IN  /\ error_counts' = [error_counts EXCEPT ![step] = @ + 1]
                       /\ current_adaptation' = adapted.current_adaptation
                       /\ adaptation_history' = adapted.adaptation_history
                       /\ UNCHANGED << step_completion_times, hint_used, hint_counters,
                                       current_step_id >>
    /\ pass_log' = Append(pass_log, [current_adaptation |-> current_adaptation',
                                     records |-> Len(adaptation_history')])
    /\ form_message' = IF FlexibleCorrect[current_step_id + 1][o] THEN "success" ELSE "error"
    /\ UNCHANGED << content_generated, detected_device, pc >>
    /\ UNCHANGED call_vars

\* mutant: the empty submission is warned about and counted as an error of the step
SubmitEmptyAnswerCounted ==
    /\ pc = "session"
    /\ content_generated
    /\ current_step_id < NumSteps
    /\ form_message' = "warning"
    /\ error_counts' = [error_counts EXCEPT ![current_step_id] = @ + 1]
    /\ UNCHANGED << content_generated, detected_device, signal_history, friction_scores,
                    current_adaptation, adaptation_history, current_step_id, hint_used,
                    hint_counters, step_completion_times, pass_log, pc >>
    /\ UNCHANGED call_vars

\* _render_learning_experience, "if submitted:" with no answer chosen (the radio
\* starts with index=None): "if user_answer:" fails and st.warning is shown
SubmitEmptyAnswer ==
    /\ pc = "session"
    /\ content_generated
    /\ current_step_id < NumSteps
    /\ form_message' = "warning"
    /\ UNCHANGED << content_generated, detected_device, signal_history, friction_scores,
                    current_adaptation, adaptation_history, error_counts,
                    current_step_id, hint_used, hint_counters, step_completion_times,
                    pass_log, pc >>
    /\ UNCHANGED call_vars

\* the hint button: "if current_hint_index < len(adapted_step.hints)"
RequestHint ==
    /\ pc = "session"
    /\ content_generated
    /\ current_step_id < NumSteps
    /\ hint_counters[current_step_id] < NumHints
    /\ hint_counters[current_step_id] < MaxHintsPerStep
    /\ current_step_id \in HintSteps
    /\ hint_used' = [hint_used EXCEPT ![current_step_id] = TRUE]
    /\ hint_counters' = [hint_counters EXCEPT ![current_step_id] = @ + 1]
    /\ form_message' = "None"
    /\ UNCHANGED << content_generated, detected_device, signal_history, friction_scores,
                    current_adaptation, adaptation_history, error_counts,
                    current_step_id, step_completion_times, pass_log, pc >>
    /\ UNCHANGED call_vars

\* mutant: the reset keeps the error counts and the hint counters
ResetSessionKeepsCounts ==
    /\ pc = "session"
    /\ content_generated' = FALSE
    /\ detected_device' = "None"
    /\ signal_history' = << >>
    /\ friction_scores' = ZeroScores
    /\ current_adaptation' = "None"
    /\ adaptation_history' = << >>
    /\ current_step_id' = 0
    /\ hint_used' = [s \in StepIds |-> FALSE]
    /\ step_completion_times' = [s \in StepIds |-> "None"]
    /\ form_message' = "None"
    /\ pass_log' = << >>
    /\ UNCHANGED << error_counts, hint_counters, pc >>
    /\ UNCHANGED call_vars

\* _reset_session: every key is deleted, and the rerun initialises the state anew
ResetSession ==
    /\ pc = "session"
    /\ content_generated' = FALSE
    /\ detected_device' = "None"
    /\ signal_history' = << >>
    /\ friction_scores' = ZeroScores
    /\ current_adaptation' = "None"
    /\ adaptation_history' = << >>
    /\ error_counts' = [s \in StepIds |-> 0]
    /\ current_step_id' = 0
    /\ hint_used' = [s \in StepIds |-> FALSE]
    /\ hint_counters' = [s \in StepIds |-> 0]
    /\ step_completion_times' = [s \in StepIds |-> "None"]
    /\ form_message' = "None"
    /\ pass_log' = << >>
    /\ UNCHANGED pc
    /\ UNCHANGED call_vars

Next ==
    \/ \E device \in DeviceTypes : GenerateContent(device)
    \/ \E o \in AnswerChoices, ob \in Observations : SubmitAnswer(o, ob[1], ob[2])
    \/ SubmitEmptyAnswer
    \/ RequestHint
    \/ ResetSession

Spec == Init /\ [][Next]_vars

(***************************************************************************)
(* The scorer on its own: _update_friction_scores applied to a window of   *)
(* signals, and to the window with one more incorrect signal.              *)
(***************************************************************************)
\* bound of the model: the signals of a window
MaxWindow == 3

\* the steps, and the << interaction_time, latency, hint_used >> of the signals
WindowSteps == {0, 2}

WindowProfiles == { <<4, 20, FALSE>>, <<50, 20, TRUE>>, <<100, 50, FALSE>> }

WindowSignals(device, outcomes) ==
    { collect_post_step_signals(step, is_correct, profile[1], profile[3],
                                get_difficulty(step), 0, profile[2], device) :
        step \in WindowSteps, is_correct \in outcomes, profile \in WindowProfiles }

ScoreInit ==
    /\ content_generated = TRUE
    /\ detected_device \in DeviceTypes
    /\ signal_history \in UNION { [1..n -> WindowSignals(detected_device, BOOLEAN)] :
                                    n \in 2..MaxWindow }
    /\ friction_scores = ZeroScores
    /\ current_adaptation = "None"
    /\ adaptation_history = << >>
    /\ error_counts = [s \in StepIds |-> 0]
    /\ current_step_id = 0
    /\ hint_used = [s \in StepIds |-> FALSE]
    /\ hint_counters = [s \in StepIds |-> 0]
    /\ step_completion_times = [s \in StepIds |-> "None"]
    /\ form_message = "None"
    /\ pass_log = << >>
    /\ pc = "window"
    /\ NoCall

\* the scorer on the window
ScoreWindow ==
    /\ pc = "window"
    /\ friction_scores' = update_friction_scores(signal_history, friction_scores)
    /\ pc' = "scored"
    /\ UNCHANGED << content_generated, detected_device, signal_history,
                    current_adaptation, adaptation_history, error_counts,
                    current_step_id, hint_used, hint_counters, step_completion_times,
                    form_message, pass_log >>
    /\ UNCHANGED call_vars

\* one more incorrect signal, and the scorer on the extended window
ExtendWindow(signal) ==
    /\ pc = "scored"
    /\ Len(signal_history) < WindowSize
    /\ signal_history' = Append(signal_history, signal)
    /\ friction_scores' = update_friction_scores(signal_history', friction_scores)
    /\ pc' = "extended"
    /\ UNCHANGED << content_generated, detected_device, current_adaptation,
                    adaptation_history, error_counts, current_step_id, hint_used,
                    hint_counters, step_completion_times, form_message, pass_log >>
    /\ UNCHANGED call_vars

ScoreNext ==
    \/ ScoreWindow
    \/ \E signal \in WindowSignals(detected_device, {FALSE}) : ExtendWindow(signal)

ScoreSpec == ScoreInit /\ [][ScoreNext]_vars

(***************************************************************************)
(* Properties of the session and of the scorer.                            *)
(***************************************************************************)
\* a step of the session in which an answer is submitted, and its signal
AnswerPass == pc = "session" /\ Len(signal_history') = Len(signal_history) + 1

NewSignal == signal_history'[Len(signal_history')]

HasScoreAbove(scores, bound) == \E f \in FrictionTypeSet : scores[f] > bound

\* the first dimension, in table order, whose score is the maximum
FirstMaxDimension(scores) ==
    LET IsMax(i) == \A j \in 1..5 : scores[FrictionTypes[j]] <= scores[FrictionTypes[i]]
    IN  CHOOSE i \in 1..5 : IsMax(i) /\ \A j \in 1..5 : IsMax(j) => i <= j

IsClearedRecord(r) == "action" \in DOMAIN r /\ r.action = "cleared"

AllCorrect(history, first, last) == \A i \in first..last : history[i].correct

\* C1: in every reachable state current_adaptation is null or a text that
\* validate_adaptation accepts.
C1_ValidatorGate ==
    current_adaptation = "None" \/ validate_adaptation(current_adaptation)

\* C2: while an adaptation is active, a pass with an incorrect answer leaves
\* current_adaptation unchanged and appends no record to adaptation_history.
C2_NoReselection ==
    [][ (AnswerPass /\ current_adaptation # "None" /\ ~NewSignal.correct)
            => /\ current_adaptation' = current_adaptation
               /\ adaptation_history' = adaptation_history ]_vars

\* C3: current_adaptation changes from null to non-null only in a pass whose new
\* signal is incorrect, with at least 2 signals in the history (the new one
\* included) and a recomputed score strictly above 0.4.
C3_StartGuards ==
    [][ (current_adaptation = "None" /\ current_adaptation' # "None")
            => /\ AnswerPass
               /\ ~NewSignal.correct
               /\ Len(signal_history') >= 2
               /\ HasScoreAbove(friction_scores', 12 * Thirtieth) ]_vars

\* C3 witness: an adaptation has started with the latest answer
C3_Started ==
    /\ Len(pass_log) >= 2
    /\ pass_log[Len(pass_log) - 1].current_adaptation = "None"
    /\ pass_log[Len(pass_log)].current_adaptation # "None"
    /\ current_adaptation # "None"

\* C4: with no adaptation active and at least 2 signals (the new one included),
\* an incorrect answer whose recomputed vector has a score above 0.4 sets
\* current_adaptation to the first of the three entries of the maximum-scoring
\* dimension, the first dimension in table order on a tie, and appends exactly
\* one record, not a cleared one, naming that dimension and its score.
C4_StartsAdapting ==
    [][ ( /\ AnswerPass
          /\ current_adaptation = "None"
          /\ ~NewSignal.correct
          /\ Len(signal_history') >= 2
          /\ HasScoreAbove(friction_scores', 12 * Thirtieth) )
            => LET d == FirstMaxDimension(friction_scores')
               IN  /\ Len(Adaptations[d]) = 3
                   /\ current_adaptation' = Adaptations[d][1]
                   /\ Len(adaptation_history') = Len(adaptation_history) + 1
                   /\ SubSeq(adaptation_history', 1, Len(adaptation_history))
                         = adaptation_history
                   /\ LET r == adaptation_history'[Len(adaptation_history')]
                      IN  /\ ~IsClearedRecord(r)
                          /\ r.friction_type = FrictionTypes[d]
                          /\ r.friction_score = friction_scores'[FrictionTypes[d]]
                          /\ r.adaptation = Adaptations[d][1] ]_vars

\* C4 witness: the second answer starts an adaptation on a tie of two dimensions
C4_StartedOnTie ==
    /\ Len(signal_history) = 2
    /\ Len(adaptation_history) = 1
    /\ friction_scores["Regulation & motivation friction"] = 15 * Thirtieth
    /\ friction_scores["Interaction & feedback friction"] = 15 * Thirtieth
    /\ ~HasScoreAbove(friction_scores, 15 * Thirtieth)
    /\ current_adaptation = "Adding progress indicators and milestones"

\* C5: when an adaptation is active after some answer and the next three
\* answers are all correct, current_adaptation is null after the third and
\* exactly one record, a cleared one, was appended over the three.
C5_ThreeCorrectClear ==
    \A k \in 1..(Len(pass_log) - 3) :
        ( /\ pass_log[k].current_adaptation # "None"
          /\ AllCorrect(signal_history, k + 1, k + 3) )
            => /\ pass_log[k + 3].current_adaptation = "None"
               /\ pass_log[k + 3].records = pass_log[k].records + 1
               /\ IsClearedRecord(adaptation_history[pass_log[k + 3].records])

\* C5 witness: three correct answers have followed an active adaptation
C5_ThreeCorrectSeen ==
    \E k \in 1..(Len(pass_log) - 3) :
        /\ pass_log[k].current_adaptation # "None"
        /\ AllCorrect(signal_history, k + 1, k + 3)
        /\ current_adaptation = "None"

\* C6: within a session, current_adaptation changes from non-null to null only
\* in a pass with a correct answer whose last 3 signals are all correct; the
\* record appended then carries the cleared text and "Improved performance".
C6_ClearGuards ==
    [][ (current_adaptation # "None" /\ current_adaptation' = "None" /\ ~ResetSession)
            => /\ AnswerPass
               /\ NewSignal.correct
               /\ Len(signal_history') >= 3
               /\ AllCorrect(signal_history', Len(signal_history') - 2,
                             Len(signal_history'))
               /\ adaptation_history' =
                      Append(adaptation_history,
                             [ action     |-> "cleared",
                               adaptation |-> current_adaptation,
                               reason     |-> "Improved performance" ]) ]_vars

\* C6 witness: the latest answer has cleared an adaptation
C6_Cleared ==
    /\ Len(pass_log) >= 3
    /\ pass_log[Len(pass_log) - 1].current_adaptation # "None"
    /\ pass_log[Len(pass_log)].current_adaptation = "None"
    /\ adaptation_history # << >>
    /\ IsClearedRecord(adaptation_history[Len(adaptation_history)])

\* the signals of a history but the last
Front(history) == SubSeq(history, 1, Len(history) - 1)

\* the table of the five dimensions on a history, in exact thirtieths
TableWindow(history) ==
    { i \in 1..Len(history) : i > Len(history) - 5 }

TableAccess(history) ==
    LET w == TableWindow(history)
        slow == Cardinality({i \in w : history[i].network_latency > 30})
        small == Cardinality({i \in w : history[i].device_type \in {"mobile", "tablet"}})
    IN  Min(30, 10 * slow + 5 * small)

\* (a single response time is no increase)
TableTimesIncrease(history) ==
    /\ Cardinality(TableWindow(history)) >= 2
    /\ \A i \in TableWindow(history), j \in TableWindow(history) :
          i < j => history[i].interaction_time < history[j].interaction_time

TableMeanAbove45(history) ==
    LET w == TableWindow(history)
        times == [i \in w |-> history[i].interaction_time]
    IN  Sum(times, w) > 45 * Cardinality(w)

TableCognitive(history) ==
    LET w == TableWindow(history)
        errors == Cardinality({i \in w : ~history[i].correct})
        hints == Cardinality({i \in w : history[i].hint_used})
    IN  Min(30, (IF TableTimesIncrease(history) THEN 15 ELSE 0)
                  + (IF TableMeanAbove45(history) THEN 10 ELSE 0)
                  + 3 * errors + 4 * hints)

TableMotivation(history) ==
    LET w == TableWindow(history)
        abandoned == Cardinality({i \in w : /\ history[i].interaction_time < 10
                                            /\ ~history[i].correct})
    IN  Min(30, 15 * abandoned
                  + (IF \E i \in w : history[i].interaction_time > 90 THEN 15 ELSE 0))

TableInteraction(history) ==
    LET w == TableWindow(history)
        twice(step) == \E i \in w, j \in w :
                          /\ i < j
                          /\ history[i].step_id = step /\ ~history[i].correct
                          /\ history[j].step_id = step /\ ~history[j].correct
    IN  Min(30, 15 * Cardinality({step \in StepIds : twice(step)}))

TableTransfer(history) ==
    LET all == 1..Len(history)
        beginner == {i \in all : history[i].step_difficulty = "beginner"}
        intermediate == {i \in all : history[i].step_difficulty = "intermediate"}
        right(S) == Cardinality({i \in S : history[i].correct})
    IN  IF /\ Len(history) >= 4 /\ beginner # {} /\ intermediate # {}
           /\ 10 * right(beginner) > 7 * Cardinality(beginner)
           /\ 10 * right(intermediate) < 4 * Cardinality(intermediate)
        THEN 30 ELSE 0

\* a score, to the nearest thirtieth
NearestThirtieth(score) == (score + 1) \div Thirtieth

ScoresMatchTable(scores, history) ==
    /\ DOMAIN scores = FrictionTypeSet
    /\ NearestThirtieth(scores["Access friction"]) = TableAccess(history)
    /\ NearestThirtieth(scores["Cognitive load friction"]) = TableCognitive(history)
    /\ NearestThirtieth(scores["Regulation & motivation friction"])
          = TableMotivation(history)
    /\ NearestThirtieth(scores["Interaction & feedback friction"])
          = TableInteraction(history)
    /\ NearestThirtieth(scores["Transfer & meaning friction"]) = TableTransfer(history)

\* C7: every friction score lies in [0.0, 1.0] and the vector has exactly the
\* five fixed dimensions, for every window of signals.
C7_ScoresInUnitRange ==
    /\ DOMAIN friction_scores = FrictionTypeSet
    /\ Cardinality(FrictionTypeSet) = 5
    /\ \A f \in FrictionTypeSet :
          friction_scores[f] >= 0 /\ friction_scores[f] <= ScoreOne

\* C7 witness: three abandoned answers in the scored window, the score at 1.0
C7_ClampActs ==
    /\ pc \in {"scored", "extended"}
    /\ Cardinality({i \in DOMAIN signal_history :
                      /\ signal_history[i].interaction_time < 10
                      /\ ~signal_history[i].correct}) >= 3
    /\ friction_scores["Regulation & motivation friction"] = ScoreOne

\* C8 as stated: after every signal, for every history length >= 1, the vector
\* equals the table's formulas on the last 5 signals (Transfer on the full
\* history), to the rounding of the float arithmetic.
C8_TableFromFirstSignal ==
    (pc = "session" /\ Len(signal_history) >= 1)
        => ScoresMatchTable(friction_scores, signal_history)

\* C8 amended: the vector equals the table's formulas for every history
\* length >= 2; with fewer than two signals it keeps its initial zeros.
C8_TableFromSecondSignal ==
    pc = "session"
        => /\ Len(signal_history) >= 2
                => ScoresMatchTable(friction_scores, signal_history)
           /\ Len(signal_history) < 2 => friction_scores = ZeroScores

\* C8 witness: six signals, the first an abandoned answer the window has left
C8_WindowMoved ==
    /\ pc = "session"
    /\ Len(signal_history) = 6
    /\ signal_history[1].interaction_time < 10 /\ ~signal_history[1].correct
    /\ friction_scores["Regulation & motivation friction"] = 0
    /\ friction_scores["Cognitive load friction"] > 0

\* the added signal keeps the indicators of the response times: a strictly
\* increasing window stays so, a mean above 45 stays above 45
KeepsTimeIndicators(window, extended) ==
    /\ TableTimesIncrease(window) => TableTimesIncrease(extended)
    /\ TableMeanAbove45(window) => TableMeanAbove45(extended)

\* C9 as stated: an incorrect signal added to a window never lowers the
\* Cognitive load friction score.
C9_CognitiveMonotone ==
    [][ (pc = "scored" /\ pc' = "extended")
            => friction_scores'["Cognitive load friction"]
                  >= friction_scores["Cognitive load friction"] ]_vars

\* C9 amended: an incorrect signal added to a window never lowers the
\* Cognitive load friction score, provided the added signal neither ends a
\* strictly increasing run of response times nor brings their mean from above
\* 45 to 45 or below.
C9_CognitiveMonotoneKeepingTimes ==
    [][ ( /\ pc = "scored" /\ pc' = "extended"
          /\ KeepsTimeIndicators(signal_history, signal_history') )
            => friction_scores'["Cognitive load friction"]
                  >= friction_scores["Cognitive load friction"] ]_vars

\* C9 witness: a strictly increasing window extended by a slower incorrect answer
C9_ExtendedKeepingTrend ==
    /\ pc = "extended"
    /\ TableTimesIncrease(Front(signal_history))
    /\ KeepsTimeIndicators(Front(signal_history), signal_history)
    /\ ~signal_history[Len(signal_history)].correct
    /\ friction_scores["Cognitive load friction"]
          > cognitive_load_friction(Front(signal_history))

\* C10: an incorrect signal added to a window never lowers the Interaction &
\* feedback friction score.
C10_InteractionMonotone ==
    [][ (pc = "scored" /\ pc' = "extended")
            => friction_scores'["Interaction & feedback friction"]
                  >= friction_scores["Interaction & feedback friction"] ]_vars

\* C10 witness: the added incorrect signal is the second error of its step
C10_ExtendedRaises ==
    /\ pc = "extended"
    /\ ~signal_history[Len(signal_history)].correct
    /\ interaction_friction(Front(signal_history)) = 0
    /\ friction_scores["Interaction & feedback friction"] = 15 * Thirtieth

(***************************************************************************)
(* The session with quick answers: the first answers of a session, given   *)
(* after 4 or 6 seconds at a low latency.                                  *)
(***************************************************************************)
\* bound of the model: the answers of the short session
MaxScenarioSignals == 3

ScenarioObservations == { <<4, 20>>, <<6, 20>> }

ScenarioAnswer(o, interaction_time, latency) ==
    /\ Len(signal_history) < MaxScenarioSignals
    /\ SubmitAnswer(o, interaction_time, latency)

ScenarioNext ==
    \/ \E device \in DeviceTypes : GenerateContent(device)
    \/ \E o \in AnswerChoices, ob \in ScenarioObservations :
          ScenarioAnswer(o, ob[1], ob[2])
    \/ RequestHint

ScenarioSpec == Init /\ [][ScenarioNext]_vars

\* the two signals of the scenario: step 0 answered wrongly after 4 s, then
\* after 6 s, on a desktop at a latency of at most 0.3 s, without a hint
ScenarioPlayed ==
    /\ detected_device = "desktop"
    /\ Len(signal_history) = 2
    /\ \A i \in 1..2 :
          /\ signal_history[i].step_id = 0
          /\ signal_history[i].step_difficulty = "beginner"
          /\ ~signal_history[i].correct
          /\ ~signal_history[i].hint_used
          /\ signal_history[i].network_latency <= 30
    /\ signal_history[1].interaction_time = 4
    /\ signal_history[2].interaction_time = 6

\* C11 as stated: after the two signals of the scenario Interaction & feedback
\* friction is 0.5, the other dimensions are about 0 (at most 0.1), and the
\* session is Adapting with the Interaction & feedback dimension recorded and
\* that dimension's text as current_adaptation.
C11_ScenarioSelectsInteraction ==
    ScenarioPlayed
        => /\ friction_scores["Interaction & feedback friction"] = 15 * Thirtieth
           /\ \A f \in FrictionTypeSet \ {"Interaction & feedback friction"} :
                 friction_scores[f] <= 3 * Thirtieth
           /\ current_adaptation = Adaptations[4][1]
           /\ Len(adaptation_history) = 1
           /\ adaptation_history[1].friction_type = "Interaction & feedback friction"

\* C11 amended: after the two signals of the scenario Interaction & feedback
\* friction is 0.5, Access and Transfer & meaning are 0, Cognitive load is 0.7
\* (increasing times, two errors) and Regulation & motivation is 1.0 (two
\* abandoned answers); the session is Adapting with the Regulation &
\* motivation dimension recorded and that dimension's text as
\* current_adaptation.
C11_ScenarioSelectsMotivation ==
    ScenarioPlayed
        => /\ friction_scores["Interaction & feedback friction"] = 15 * Thirtieth
           /\ friction_scores["Access friction"] = 0
           /\ friction_scores["Transfer & meaning friction"] = 0
           /\ NearestThirtieth(friction_scores["Cognitive load friction"]) = 21
           /\ friction_scores["Regulation & motivation friction"] = ScoreOne
           /\ current_adaptation = Adaptations[3][1]
           /\ Len(adaptation_history) = 1
           /\ adaptation_history[1].friction_type = "Regulation & motivation friction"
           /\ adaptation_history[1].friction_score = ScoreOne
           /\ adaptation_history[1].adaptation = Adaptations[3][1]

\* C11 witness: the scenario has been played from the empty session
C11_ScenarioReached ==
    /\ ScenarioPlayed
    /\ pass_log[1].current_adaptation = "None"
    /\ current_adaptation # "None"

(***************************************************************************)
(* The scorer on long histories: signals of the three difficulties are     *)
(* recorded one by one, steps in ascending order and the wrong answers of  *)
(* a step before its correct ones, and the scorer runs after each.         *)
(***************************************************************************)
\* bound of the model: the signals of a long history
MaxHistory == 9

\* one step of each difficulty: beginner, intermediate, advanced
HistorySteps == {0, 2, 4}

HistorySignal(step, is_correct) ==
    collect_post_step_signals(step, is_correct, 20, FALSE, get_difficulty(step), 0, 20, "desktop")

HistoryInit ==
    /\ content_generated = TRUE
    /\ detected_device = "desktop"
    /\ signal_history = << >>
    /\ friction_scores = ZeroScores
    /\ current_adaptation = "None"
    /\ adaptation_history = << >>
    /\ error_counts = [s \in StepIds |-> 0]
    /\ current_step_id = 0
    /\ hint_used = [s \in StepIds |-> FALSE]
    /\ hint_counters = [s \in StepIds |-> 0]
    /\ step_completion_times = [s \in StepIds |-> "None"]
    /\ form_message = "None"
    /\ pass_log = << >>
    /\ pc = "history"
    /\ NoCall

\* "signal_history.append(signals)" and "_update_friction_scores()"
RecordSignal(step, is_correct) ==
    /\ pc = "history"
    /\ Len(signal_history) < MaxHistory
    /\ signal_history # << >> =>
          LET last == signal_history[Len(signal_history)]
          IN  \/ last.step_id < step
              \/ last.step_id = step /\ (last.correct => is_correct)
    /\ signal_history' = Append(signal_history, HistorySignal(step, is_correct))
    /\ friction_scores' = update_friction_scores(signal_history', friction_scores)
    /\ UNCHANGED << content_generated, detected_device, current_adaptation,
                    adaptation_history, error_counts, current_step_id, hint_used,
                    hint_counters, step_completion_times, form_message, pass_log, pc >>
    /\ UNCHANGED call_vars

HistoryNext == \E step \in HistorySteps, is_correct \in BOOLEAN : RecordSignal(step, is_correct)

HistorySpec == HistoryInit /\ [][HistoryNext]_vars

\* the signals of a difficulty in a history, and the correct ones among them
SignalsOf(history, difficulty) ==
    Cardinality({i \in 1..Len(history) : history[i].step_difficulty = difficulty})

CorrectOf(history, difficulty) ==
    Cardinality({i \in 1..Len(history) :
                   history[i].step_difficulty = difficulty /\ history[i].correct})

\* C12: Transfer & meaning friction is 1.0 exactly when the full history has at
\* least 4 signals, a beginner and an intermediate signal, beginner accuracy
\* above 0.7 and intermediate accuracy below 0.4, and is 0.0 otherwise.
C12_TransferExactly ==
    pc = "history"
        => LET qualifies ==
                   /\ Len(signal_history) >= 4
                   /\ SignalsOf(signal_history, "beginner") >= 1
                   /\ SignalsOf(signal_history, "intermediate") >= 1
                   /\ 10 * CorrectOf(signal_history, "beginner")
                         > 7 * SignalsOf(signal_history, "beginner")
                   /\ 10 * CorrectOf(signal_history, "intermediate")
                         < 4 * SignalsOf(signal_history, "intermediate")
           IN  friction_scores["Transfer & meaning friction"]
                  = IF qualifies THEN ScoreOne ELSE 0

\* C12 witness: 4 of 5 beginner answers and 1 of 4 intermediate answers correct
\* over 9 signals, the score at 1.0
C12_NineSignals ==
    /\ pc = "history"
    /\ Len(signal_history) = 9
    /\ SignalsOf(signal_history, "beginner") = 5
    /\ CorrectOf(signal_history, "beginner") = 4
    /\ SignalsOf(signal_history, "intermediate") = 4
    /\ CorrectOf(signal_history, "intermediate") = 1
    /\ friction_scores["Transfer & meaning friction"] = ScoreOne

(***************************************************************************)
(* The validator on its own: validate_adaptation applied to texts put      *)
(* together from fragments.                                                *)
(***************************************************************************)
\* bound of the model: the fragments of a text
MaxFragments == 2

TextFragments ==
    { Chars("Simplify "), Chars("Add progress indicators "), Chars("restructure "),
      Chars("pacing"), Chars("FEEDBACK "), Chars("Remov"), Chars("e"), Chars("always "),
      Chars("timing "), Chars("reduce the difficulty ") }

RECURSIVE TextsOf(_)
\* the texts of n fragments
TextsOf(n) ==
    IF n = 0 THEN { << >> }
    ELSE { head \o fragment : head \in TextsOf(n - 1), fragment \in TextFragments }

ValidatorTexts ==
    UNION { TextsOf(n) : n \in 1..MaxFragments }
      \cup { Chars("Simplify the explanation and reduce difficulty"),
             Chars("Add progress indicators and restructure pacing") }

ValidatorInit ==
    /\ content_generated = FALSE
    /\ detected_device = "None"
    /\ signal_history = << >>
    /\ friction_scores = ZeroScores
    /\ current_adaptation = "None"
    /\ adaptation_history = << >>
    /\ error_counts = [s \in StepIds |-> 0]
    /\ current_step_id = 0
    /\ hint_used = [s \in StepIds |-> FALSE]
    /\ hint_counters = [s \in StepIds |-> 0]
    /\ step_completion_times = [s \in StepIds |-> "None"]
    /\ form_message = "None"
    /\ pass_log = << >>
    /\ pc = "validator"
    /\ adaptation_text \in ValidatorTexts
    /\ is_valid = "None"
    /\ explanation_style = "None"
    /\ learning_step = "None"
    /\ adapted_step = "None"
    /\ oracle_response = "None"
    /\ diagnosis = "None"

\* AdaptationMapper.validate_adaptation(adaptation_text, step)
Validate ==
    /\ pc = "validator"
    /\ is_valid' = validate_adaptation_chars(adaptation_text)
    /\ pc' = "validated"
    /\ UNCHANGED session_vars
    /\ UNCHANGED << adaptation_text, explanation_style, learning_step, adapted_step,
                    oracle_response, diagnosis >>

ValidatorNext == Validate

ValidatorSpec == ValidatorInit /\ [][ValidatorNext]_vars

\* the terms of the validator's contract
SubstanceTerms ==
    { <<"s","i","m","p","l","i","f","y">>, <<"m","a","k","e"," ","e","a","s","i","e","r">>,
      <<"r","e","d","u","c","e"," ","d","i","f","f","i","c","u","l","t","y">>,
      <<"r","e","m","o","v","e">>, <<"s","k","i","p">>, <<"a","v","o","i","d">>,
      <<"c","h","a","n","g","e"," ","a","n","s","w","e","r">>,
      <<"d","i","f","f","e","r","e","n","t"," ","s","o","l","u","t","i","o","n">>,
      <<"p","e","r","m","a","n","e","n","t">>, <<"a","l","w","a","y","s">>,
      <<"f","o","r","e","v","e","r">> }

PresentationTerms ==
    { <<"p","r","e","s","e","n","t">>, <<"s","t","r","u","c","t","u","r","e">>,
      <<"p","a","c","e">>, <<"s","e","q","u","e","n","c","e">>, <<"f","o","r","m","a","t">>,
      <<"o","r","g","a","n","i","z","e">>, <<"t","i","m","i","n","g">>,
      <<"f","e","e","d","b","a","c","k">> }

\* the letter c as written in a term, whatever its case in the text
SameLetter(c, d) ==
    \/ c = d
    \/ \E k \in DOMAIN UpperCase : UpperCase[k] = c /\ LowerCase[k] = d

\* the term occurs in the text, case-insensitively, as a substring
OccursIn(term, text) ==
    \E at \in 0..(Len(text) - Len(term)) :
        \A k \in 1..Len(term) : SameLetter(text[at + k], term[k])

\* C13: validate(text) is true if and only if the text contains none of the
\* eleven substance-altering terms and at least one of the eight presentation
\* terms, case-insensitively as substrings.
C13_ValidatorContract ==
    pc = "validated"
        => /\ Cardinality(SubstanceTerms) = 11
           /\ Cardinality(PresentationTerms) = 8
           /\ is_valid = ( /\ \A term \in SubstanceTerms : ~OccursIn(term, adaptation_text)
                           /\ \E term \in PresentationTerms :
                                 OccursIn(term, adaptation_text) )
           /\ adaptation_text = Chars("Simplify the explanation and reduce difficulty")
                 => is_valid = FALSE
           /\ adaptation_text = Chars("Add progress indicators and restructure pacing")
                 => is_valid = TRUE

\* C13 witness: a capitalised forbidden term rejects a text that also holds a
\* presentation term
C13_ForbiddenWins ==
    /\ pc = "validated"
    /\ adaptation_text = Chars("Simplify ") \o Chars("FEEDBACK ")
    /\ is_valid = FALSE

(***************************************************************************)
(* Applying an adaptation to a learning unit.  A text of a unit is a       *)
(* sequence of pieces: "\n" is one line break, every other piece is a run  *)
(* of characters without a line break, written without its pictograph.     *)
(***************************************************************************)
Newline == "\n"

ParagraphBreak == << Newline, Newline >>

Bullet == "* "

\* task_marker of _apply_explanation_style
task_marker == << "**", "Your Task:", "**" >>

\* term in adaptation.lower()
adaptation_has(adaptation, term) == contains(lower(Chars(adaptation)), Chars(term))

\* pacing_elements of _apply_pacing_adaptation
pacing_elements ==
    << ParagraphBreak \o << "---", Newline, "**Progress Checkpoint**" >>,
       ParagraphBreak \o << "*Estimated time: Take your time with this concept*" >>,
       ParagraphBreak \o << "*You're making progress!*" >>,
       ParagraphBreak \o << "*Pause point: Consider what you've learned so far*" >> >>

\* AdaptationApplier._apply_pacing_adaptation
apply_pacing_adaptation(step, adaptation) ==
    [step EXCEPT !.content =
        IF adaptation_has(adaptation, "progress") THEN @ \o pacing_elements[1]
        ELSE IF adaptation_has(adaptation, "time") THEN @ \o pacing_elements[2]
        ELSE IF adaptation_has(adaptation, "checkpoint") THEN @ \o pacing_elements[4]
        ELSE @ \o pacing_elements[3]]

\* the positions of the line breaks of a text, in order
line_breaks(content) ==
    SelectSeq([i \in 1..Len(content) |-> i], LAMBDA i : content[i] = Newline)

\* lines = content.split('\n'); lines.insert(len(lines) // 2, '\n---\n**Key Concept**\n');
\* '\n'.join(lines), for a text of more than four lines
insert_section_break(content) ==
    LET breaks   == line_breaks(content)
        midpoint == (Len(breaks) + 1) \div 2
        at       == breaks[midpoint]
    IN  SubSeq(content, 1, at)
            \o << Newline, "---", Newline, "**Key Concept**", Newline >>
            \o << Newline >>
            \o SubSeq(content, at + 1, Len(content))

\* content.replace('\n\n', '\n\n* '), left to right without overlap
RECURSIVE bullet_paragraphs(_)
bullet_paragraphs(content) ==
    IF content = << >> THEN << >>
    ELSE IF Len(content) >= 2 /\ content[1] = Newline /\ content[2] = Newline
         THEN ParagraphBreak \o << Bullet >>
                  \o bullet_paragraphs(SubSeq(content, 3, Len(content)))
         ELSE << content[1] >> \o bullet_paragraphs(Tail(content))

\* AdaptationApplier._apply_structure_adaptation
apply_structure_adaptation(step, adaptation) ==
    LET content == step.content
        broken  == IF /\ \/ adaptation_has(adaptation, "break")
                         \/ adaptation_has(adaptation, "chunk")
                      /\ Len(line_breaks(content)) + 1 > 4
                   THEN insert_section_break(content)
                   ELSE content
        bulleted == bullet_paragraphs(broken)
    IN  [step EXCEPT !.content =
            IF adaptation_has(adaptation, "organize")
            THEN IF bulleted # << >> /\ bulleted[1] = Bullet
                 THEN bulleted
                 ELSE << Bullet >> \o bulleted
            ELSE broken]

\* AdaptationApplier._apply_sequencing_adaptation
apply_sequencing_adaptation(step, adaptation) ==
    IF /\ adaptation_has(adaptation, "example")
       /\ adaptation_has(adaptation, "before")
       /\ ~(contains(step.content, << "Example:" >>)
               /\ contains(step.content, << "Your Task:" >>))
    THEN [step EXCEPT
            !.content = << "First, let's look at an example:" >> \o ParagraphBreak \o @,
            !.task = << "Now try applying what you learned:" >> \o ParagraphBreak \o @]
    ELSE step

\* AdaptationApplier._apply_feedback_adaptation
apply_feedback_adaptation(step, adaptation) ==
    [step EXCEPT !.task =
        IF adaptation_has(adaptation, "confirm")
        THEN @ \o ParagraphBreak
               \o << "*Tip: Before submitting, double-check your reasoning.*" >>
        ELSE IF adaptation_has(adaptation, "hint") /\ step.hints # << >>
        THEN @ \o ParagraphBreak
               \o << "*Remember: You can use hints if you get stuck.*" >>
        ELSE @]

\* AdaptationApplier._apply_contextual_adaptation
apply_contextual_adaptation(step, adaptation) ==
    [step EXCEPT !.content =
        IF adaptation_has(adaptation, "relevance")
              \/ adaptation_has(adaptation, "application")
        THEN ParagraphBreak \o << "**Why this matters:** This concept is useful" >>
                 \o ParagraphBreak \o @
        ELSE @]

\* style_markers of _apply_explanation_style
style_markers(style) ==
    CASE style = "analogies" -> ParagraphBreak \o << "**Think of it like this:** " >>
      [] style = "step-by-step" -> ParagraphBreak \o << "**Step-by-step:** " >>
      [] style = "examples" -> ParagraphBreak \o << "**For example:** " >>
      [] OTHER -> << >>

\* parts = content.split(sub); parts[0] + marker + sub + sub.join(parts[1:])
insert_before_first(content, sub, marker) ==
    LET at == CHOOSE i \in 0..(Len(content) - Len(sub)) :
                  /\ \A j \in 1..Len(sub) : content[i + j] = sub[j]
                  /\ \A k \in 0..(i - 1) :
                         \E j \in 1..Len(sub) : content[k + j] # sub[j]
    IN  SubSeq(content, 1, at) \o marker \o SubSeq(content, at + 1, Len(content))

\* AdaptationApplier._apply_explanation_style
apply_explanation_style(step, style) ==
    LET marker == style_markers(style)
    IN  [step EXCEPT !.content =
            IF marker # << >> /\ ~contains(@, marker)
            THEN IF contains(@, task_marker)
                 THEN insert_before_first(@, task_marker, marker)
                 ELSE @ \o marker
            ELSE @]

\* any(term in adaptation_lower for term in terms)
any_term(adaptation, terms) == \E term \in terms : adaptation_has(adaptation, term)

\* mutant: every family with a keyword in the text is applied ("if" for "elif")
apply_adaptation_branches_every_family(adapted, adaptation, style) ==
    LET paced == IF any_term(adaptation, {"pace", "time", "progress", "checkpoint"})
                 THEN apply_pacing_adaptation(adapted, adaptation) ELSE adapted
        structured == IF any_term(adaptation, {"structure", "break", "organize", "chunk"})
                      THEN apply_structure_adaptation(paced, adaptation) ELSE paced
        sequenced == IF any_term(adaptation, {"sequence", "order", "arrange"})
                     THEN apply_sequencing_adaptation(structured, adaptation)
                     ELSE structured
        checked == IF any_term(adaptation, {"feedback", "hint", "confirm"})
                   THEN apply_feedback_adaptation(sequenced, adaptation) ELSE sequenced
        framed == IF any_term(adaptation, {"context", "frame", "relevance", "application"})
                  THEN apply_contextual_adaptation(checked, adaptation) ELSE checked
        styled == IF style # "None" THEN apply_explanation_style(framed, style)
                  ELSE framed
    IN  ("adaptation_applied" :> adaptation) @@ ("is_adapted" :> TRUE) @@ styled

\* the branches of AdaptationApplier.apply_adaptation, acting on the unit adapted
apply_adaptation_branches(adapted, adaptation, style) ==
    LET by_type ==
            IF any_term(adaptation, {"pace", "time", "progress", "checkpoint"})
            THEN apply_pacing_adaptation(adapted, adaptation)
            ELSE IF any_term(adaptation, {"structure", "break", "organize", "chunk"})
            THEN apply_structure_adaptation(adapted, adaptation)
            ELSE IF any_term(adaptation, {"sequence", "order", "arrange"})
            THEN apply_sequencing_adaptation(adapted, adaptation)
            ELSE IF any_term(adaptation, {"feedback", "hint", "confirm"})
            THEN apply_feedback_adaptation(adapted, adaptation)
            ELSE IF any_term(adaptation, {"context", "frame", "relevance", "application"})
            THEN apply_contextual_adaptation(adapted, adaptation)
            ELSE adapted
        styled == IF style # "None" THEN apply_explanation_style(by_type, style)
                  ELSE by_type
    IN  ("adaptation_applied" :> adaptation) @@ ("is_adapted" :> TRUE) @@ styled

\* apply_adaptation working on the unit it is given instead of on a copy of it
applier_apply_adaptation_in_place(unit, adaptation, style) ==
    LET adapted == apply_adaptation_branches(unit, adaptation, style)
    IN  [input |-> adapted, result |-> adapted]

\* AdaptationApplier.apply_adaptation: the unit given as it is after the call,
\* and the unit returned
applier_apply_adaptation(unit, adaptation, style) ==
    [input |-> unit, result |-> apply_adaptation_branches(unit, adaptation, style)]

\* style_additions of LearningStepRenderer._apply_style
style_additions(style) ==
    CASE style = "analogies" ->
            ParagraphBreak \o << "**Think of it like this**: This concept is similar to" >>
      [] style = "step-by-step" ->
            ParagraphBreak \o << "**Step-by-step breakdown**:", Newline,
                                 "1. Start with the basic concept", Newline,
                                 "2. Understand each component", Newline,
                                 "3. See how they work together", Newline,
                                 "4. Apply the knowledge" >>
      [] style = "examples" ->
            ParagraphBreak \o << "**Practical example**: For instance, in real life" >>
      [] OTHER -> << >>

\* LearningStepRenderer._apply_style
apply_style(content, adaptation, style) ==
    LET styled == IF style # "None" /\ style # "none"
                  THEN content \o style_additions(style)
                  ELSE content
    IN  IF adaptation # ""
        THEN styled \o ParagraphBreak \o << "**Learning Support**: ", adaptation >>
        ELSE styled

\* LearningStepRenderer.apply_adaptation: the unit given as it is after the call,
\* and the unit returned
renderer_apply_adaptation(unit, adaptation, style) ==
    [input  |-> unit,
     result |-> [id |-> unit.id, title |-> unit.title,
                 content |-> apply_style(unit.content, adaptation, style),
                 task |-> unit.task, correct_answer |-> unit.correct_answer,
                 hints |-> unit.hints, difficulty |-> unit.difficulty,
                 options |-> unit.options, video_url |-> unit.video_url,
                 is_adapted |-> TRUE, adaptation_type |-> adaptation]]

(***************************************************************************)
(* The appliers on learning units: a unit, an adaptation text and an       *)
(* explanation style are drawn, and each applier is applied to the unit    *)
(* and then to the unit it returned.                                       *)
(***************************************************************************)
UnitContents ==
    { << "Intro" >>,
      << "Intro" >> \o ParagraphBreak \o << "Body" >>,
      << "Intro" >> \o ParagraphBreak \o task_marker \o << Newline, "Solve" >>,
      << "One", Newline, "Two", Newline, "Three", Newline, "Four", Newline, "Five" >>,
      << "Example:", Newline, "Worked" >> \o ParagraphBreak \o task_marker }

UnitHints == { << >>, << "First hint", "Second hint" >> }

LearningUnits ==
    { [id |-> 1, title |-> "Step 2", content |-> content, task |-> << "Choose" >>,
       correct_answer |-> "x", hints |-> hints, difficulty |-> "beginner",
       options |-> << "x", "y" >>, video_url |-> "None"] :
          content \in UnitContents, hints \in UnitHints }

AppliedTexts ==
    { "Add visual organizers or concept maps",
      "Add progress indicators and completion markers",
      "Break complex step into smaller sub-steps",
      "Connect to practical applications",
      "Add confirmatory checks before submission",
      "Sequence from simple to complex examples",
      "Provide immediate error prevention hints",
      "Sequence a worked example before practice",
      "Provide estimated time reminders",
      "Allow self-paced advancement",
      "Insert interim checkpoints",
      "Highlight key terms",
      "Organize content and add progress checkpoints",
      "Reorder hints for context",
      "Confirm relevance",
      "Restructure the layout" }

ExplanationStyles == {"None", "none", "analogies", "step-by-step", "examples"}

ApplyInit ==
    /\ content_generated = FALSE
    /\ detected_device = "None"
    /\ signal_history = << >>
    /\ friction_scores = ZeroScores
    /\ current_adaptation \in AppliedTexts
    /\ adaptation_history = << >>
    /\ error_counts = [s \in StepIds |-> 0]
    /\ current_step_id = 0
    /\ hint_used = [s \in StepIds |-> FALSE]
    /\ hint_counters = [s \in StepIds |-> 0]
    /\ step_completion_times = [s \in StepIds |-> "None"]
    /\ form_message = "None"
    /\ pass_log = << >>
    /\ pc = "unit"
    /\ adaptation_text = << >>
    /\ is_valid = "None"
    /\ explanation_style \in ExplanationStyles
    /\ learning_step \in LearningUnits
    /\ adapted_step = "None"
    /\ oracle_response = "None"
    /\ diagnosis = "None"

\* adapted = AdaptationApplier.apply_adaptation(learning_step, adaptation, style)
ApplierApply ==
    /\ pc = "unit"
    /\ LET call == applier_apply_adaptation(learning_step, current_adaptation,
                                            explanation_style)
       IN  /\ learning_step' = call.input
           /\ adapted_step' = call.result
    /\ pc' = "applier_once"
    /\ UNCHANGED << content_generated, detected_device, signal_history, friction_scores,
                    current_adaptation, adaptation_history, error_counts,
                    current_step_id, hint_used, hint_counters, step_completion_times,
                    form_message, pass_log >>
    /\ UNCHANGED << adaptation_text, is_valid, explanation_style, oracle_response,
                    diagnosis >>

\* AdaptationApplier.apply_adaptation(adapted, adaptation, style) on the unit the
\* first application returned: learning_step is now the unit given to this call
ApplierApplyAgain ==
    /\ pc = "applier_once"
    /\ LET call == applier_apply_adaptation(adapted_step, current_adaptation,
                                            explanation_style)
       IN  /\ learning_step' = call.input
           /\ adapted_step' = call.result
    /\ pc' = "applier_twice"
    /\ UNCHANGED << content_generated, detected_device, signal_history, friction_scores,
                    current_adaptation, adaptation_history, error_counts,
                    current_step_id, hint_used, hint_counters, step_completion_times,
                    form_message, pass_log >>
    /\ UNCHANGED << adaptation_text, is_valid, explanation_style, oracle_response,
                    diagnosis >>

\* adapted = LearningStepRenderer.apply_adaptation(learning_step, adaptation, style)
RendererApply ==
    /\ pc = "unit"
    /\ LET call == renderer_apply_adaptation(learning_step, current_adaptation,
                                             explanation_style)
       IN  /\ learning_step' = call.input
           /\ adapted_step' = call.result
    /\ pc' = "renderer_once"
    /\ UNCHANGED << content_generated, detected_device, signal_history, friction_scores,
                    current_adaptation, adaptation_history, error_counts,
                    current_step_id, hint_used, hint_counters, step_completion_times,
                    form_message, pass_log >>
    /\ UNCHANGED << adaptation_text, is_valid, explanation_style, oracle_response,
                    diagnosis >>

\* LearningStepRenderer.apply_adaptation(adapted, adaptation, style) on the unit
\* the first application returned
RendererApplyAgain ==
    /\ pc = "renderer_once"
    /\ LET call == renderer_apply_adaptation(adapted_step, current_adaptation,
                                             explanation_style)
       IN  /\ learning_step' = call.input
           /\ adapted_step' = call.result
    /\ pc' = "renderer_twice"
    /\ UNCHANGED << content_generated, detected_device, signal_history, friction_scores,
                    current_adaptation, adaptation_history, error_counts,
                    current_step_id, hint_used, hint_counters, step_completion_times,
                    form_message, pass_log >>
    /\ UNCHANGED << adaptation_text, is_valid, explanation_style, oracle_response,
                    diagnosis >>

ApplyNext ==
    \/ ApplierApply
    \/ ApplierApplyAgain
    \/ RendererApply
    \/ RendererApplyAgain

ApplySpec == ApplyInit /\ [][ApplyNext]_vars

\* the number of times a piece occurs in a text
CountPiece(content, piece) == Cardinality({ i \in DOMAIN content : content[i] = piece })

AnnotatedStyles == {"analogies", "step-by-step", "examples"}

\* C14: applying an adaptation is copy-on-adapt, for both appliers: the unit
\* given to the call is left unchanged in every field, and the unit returned is
\* marked adapted, carries the applied adaptation text, and has the correct
\* answer, difficulty, id and hints of the unit given.
C14_CopyOnAdapt ==
    [][ pc' # pc =>
          LET given == IF pc = "unit" THEN learning_step ELSE adapted_step
          IN  /\ learning_step' = given
              /\ adapted_step'.is_adapted = TRUE
              /\ IF pc' \in {"applier_once", "applier_twice"}
                 THEN adapted_step'.adaptation_applied = current_adaptation
                 ELSE adapted_step'.adaptation_type = current_adaptation
              /\ adapted_step'.correct_answer = given.correct_answer
              /\ adapted_step'.difficulty = given.difficulty
              /\ adapted_step'.id = given.id
              /\ adapted_step'.hints = given.hints ]_vars

\* C14 witness: the applier returned a unit whose content and task differ from
\* those of the unit it was given
C14_AdaptedCopy ==
    /\ pc = "applier_once"
    /\ current_adaptation = "Sequence a worked example before practice"
    /\ adapted_step.content # learning_step.content
    /\ adapted_step.task # learning_step.task
    /\ adapted_step.is_adapted = TRUE

\* C15: AdaptationApplier.apply_adaptation, applied with a style of analogies,
\* step-by-step or examples to a unit it already adapted with that style, gives
\* a content holding that style's annotation exactly once.
C15_ApplierAnnotationOnce ==
    (pc = "applier_twice" /\ explanation_style \in AnnotatedStyles)
        => CountPiece(adapted_step.content, style_markers(explanation_style)[3]) = 1

\* C16: LearningStepRenderer.apply_adaptation, applied with the same style to a
\* unit it already adapted, gives a content holding that style's annotation
\* exactly once.
C16_RendererAnnotationOnce ==
    (pc = "renderer_twice" /\ explanation_style \in AnnotatedStyles)
        => CountPiece(adapted_step.content, style_additions(explanation_style)[3]) = 1

\* earlier is an initial part of later: same entries at the same positions
IsPrefix(earlier, later) ==
    /\ Len(earlier) <= Len(later)
    /\ SubSeq(later, 1, Len(earlier)) = earlier

\* C17: signal_history and adaptation_history are append-only between session
\* start and session reset: every step other than the reset keeps each existing
\* entry, in content and position, and shortens neither; a step that clears the
\* adaptation appends one cleared record and keeps the earlier record of the
\* adaptation that was active.
C17_AppendOnly ==
    [][ \/ ResetSession
        \/ /\ IsPrefix(signal_history, signal_history')
           /\ IsPrefix(adaptation_history, adaptation_history')
           /\ (current_adaptation # "None" /\ current_adaptation' = "None")
                 => /\ Len(adaptation_history') = Len(adaptation_history) + 1
                    /\ IsClearedRecord(adaptation_history'[Len(adaptation_history')])
                    /\ adaptation_history'[Len(adaptation_history')].adaptation
                           = current_adaptation
                    /\ \E i \in DOMAIN adaptation_history :
                           /\ ~IsClearedRecord(adaptation_history'[i])
                           /\ adaptation_history'[i].adaptation = current_adaptation ]_vars

\* C17 witness: an adaptation was applied and cleared, its applied record is
\* followed by the cleared record, and signals were recorded after the clearing
C17_ActiveThenCleared ==
    \E i \in DOMAIN adaptation_history :
        /\ i + 1 \in DOMAIN adaptation_history
        /\ ~IsClearedRecord(adaptation_history[i])
        /\ IsClearedRecord(adaptation_history[i + 1])
        /\ adaptation_history[i + 1].adaptation = adaptation_history[i].adaptation
        /\ Len(signal_history) = MaxSignals

\* C18: submitting an empty answer is rejected locally: the step that shows the
\* warning records no signal and leaves signal_history, the friction vector,
\* current_adaptation, adaptation_history, error_counts and the current step
\* unchanged, and the session continues on the same step, where the learner
\* can submit again.
C18_EmptyAnswerRejected ==
    [][ form_message' = "warning" =>
          /\ UNCHANGED << signal_history, friction_scores, current_adaptation,
                          adaptation_history, error_counts, current_step_id >>
          /\ pass_log' = pass_log
          /\ pc' = "session"
          /\ content_generated'
          /\ current_step_id' < NumSteps ]_vars

\* C18 witness: an empty answer was submitted while an adaptation was active and
\* the step had been answered wrongly before
C18_WarnedWhileAdapting ==
    /\ form_message = "warning"
    /\ current_adaptation # "None"
    /\ error_counts[current_step_id] >= 2
    /\ Len(signal_history) < MaxSignals

(***************************************************************************)
(* The oracle: FrictionDiagnosisEngine (src/reasoning/diagnosis.py).  A     *)
(* response of the oracle is a failed call, a text without a JSON object,   *)
(* a text whose JSON does not parse, or a parsed object; of a parsed object *)
(* the model keeps its keys and the shape of the two checked values.        *)
(***************************************************************************)
\* required_keys of _validate_diagnosis_result
required_keys == {"frictions_detected", "evidence", "adaptation", "justification"}

\* mutant: the evidence entries of the detected frictions are not checked
validate_diagnosis_result_unmatched(result) ==
    IF \E key \in required_keys : key \notin result.keys THEN "ValueError"
    ELSE IF result.frictions_detected.type # "list" THEN "ValueError"
    ELSE IF result.evidence.type # "dict" THEN "ValueError"
    ELSE "None"

\* FrictionDiagnosisEngine._validate_diagnosis_result: the exception it raises
\* ("None" = it returns)
validate_diagnosis_result(result) ==
    IF \E key \in required_keys : key \notin result.keys THEN "ValueError"
    ELSE IF result.frictions_detected.type # "list" THEN "ValueError"
    ELSE IF result.evidence.type # "dict" THEN "ValueError"
    ELSE IF \E i \in DOMAIN result.frictions_detected.items :
                result.frictions_detected.items[i] \notin result.evidence.keys
         THEN "ValueError"
    ELSE "None"

\* self.signal_collector.calculate_signal_patterns (diagnosis.py:45): the class
\* SignalCollector defines calculate_friction_patterns and no attribute of this
\* name, so the call raises AttributeError
collector_has_calculate_signal_patterns == FALSE

\* the body of diagnose from the call of the oracle on (lines 53-73): the
\* exception raised there ("None" = none)
diagnose_response(response) ==
    CASE response.kind = "call_fails" -> "Exception"
      [] response.kind = "no_json" -> "ValueError"
      [] response.kind = "bad_json" -> "JSONDecodeError"
      [] OTHER -> validate_diagnosis_result(response.result)

\* FrictionDiagnosisEngine.diagnose: None, or the parsed result
diagnose(signals, response) ==
    IF ~collector_has_calculate_signal_patterns
    THEN [is_none |-> TRUE]
    ELSE IF diagnose_response(response) # "None"
    THEN [is_none |-> TRUE]
    ELSE [is_none |-> FALSE, result |-> response.result]

\* bound of the model: the frictions a result lists
MaxFrictions == 2

\* names an oracle may give: two of the five dimensions and one that is none
OracleNames == {"Access friction", "Cognitive load friction", "Boredom"}

RECURSIVE NameLists(_)
NameLists(n) ==
    IF n = 0 THEN { << >> }
    ELSE NameLists(n - 1)
             \cup { Append(l, name) : l \in { k \in NameLists(n - 1) : Len(k) = n - 1 },
                                      name \in OracleNames }

FrictionsValues ==
    { [type |-> "absent"], [type |-> "str"] }
        \cup { [type |-> "list", items |-> l] : l \in NameLists(MaxFrictions) }

EvidenceValues ==
    { [type |-> "absent"], [type |-> "list"] }
        \cup { [type |-> "dict", keys |-> k] : k \in SUBSET OracleNames }

\* the parsed objects: a key is present exactly if it has a value
OracleResults ==
    { [keys |-> ((IF f.type = "absent" THEN {} ELSE {"frictions_detected"})
                 \cup (IF e.type = "absent" THEN {} ELSE {"evidence"})
                 \cup others),
       frictions_detected |-> f, evidence |-> e] :
          f \in FrictionsValues, e \in EvidenceValues,
          others \in SUBSET {"adaptation", "justification"} }

OracleResponses ==
    { [kind |-> "call_fails"], [kind |-> "no_json"], [kind |-> "bad_json"] }
        \cup { [kind |-> "json", result |-> r] : r \in OracleResults }

OracleInit ==
    /\ content_generated = FALSE
    /\ detected_device = "None"
    /\ signal_history = << >>
    /\ friction_scores = ZeroScores
    /\ current_adaptation = "None"
    /\ adaptation_history = << >>
    /\ error_counts = [s \in StepIds |-> 0]
    /\ current_step_id = 0
    /\ hint_used = [s \in StepIds |-> FALSE]
    /\ hint_counters = [s \in StepIds |-> 0]
    /\ step_completion_times = [s \in StepIds |-> "None"]
    /\ form_message = "None"
    /\ pass_log = << >>
    /\ pc = "oracle"
    /\ adaptation_text = << >>
    /\ is_valid = "None"
    /\ explanation_style = "None"
    /\ learning_step = "None"
    /\ adapted_step = "None"
    /\ oracle_response \in OracleResponses
    /\ diagnosis = "None"

\* self._validate_diagnosis_result(result) on a parsed object
ValidateResult ==
    /\ pc = "oracle"
    /\ oracle_response.kind = "json"
    /\ is_valid' = (validate_diagnosis_result(oracle_response.result) = "None")
    /\ pc' = "result_validated"
    /\ UNCHANGED session_vars
    /\ UNCHANGED << adaptation_text, explanation_style, learning_step, adapted_step,
                    oracle_response, diagnosis >>

\* diagnosis = engine.diagnose(signal_history), the oracle answering oracle_response
Diagnose ==
    /\ pc = "oracle"
    /\ diagnosis' = diagnose(signal_history, oracle_response)
    /\ pc' = "diagnosed"
    /\ UNCHANGED session_vars
    /\ UNCHANGED << adaptation_text, is_valid, explanation_style, learning_step,
                    adapted_step, oracle_response >>

OracleNext ==
    \/ ValidateResult
    \/ Diagnose

OracleSpec == OracleInit /\ [][OracleNext]_vars

\* the response is one of the failures the contract lists
Malformed(response) ==
    \/ response.kind # "json"
    \/ /\ response.kind = "json"
       /\ LET result == response.result
          IN  \/ required_keys \ result.keys # {}
              \/ result.frictions_detected.type # "list"
              \/ result.evidence.type # "dict"
              \/ /\ result.frictions_detected.type = "list"
                 /\ result.evidence.type = "dict"
                 /\ \E i \in DOMAIN result.frictions_detected.items :
                        result.frictions_detected.items[i] \notin result.evidence.keys

\* C19: oracle failure is never an error: when the response misses one of the
\* four fields, has a non-list frictions_detected or a non-mapping evidence,
\* lacks the evidence entry of a detected friction, does not parse, or the call
\* fails, the structure check rejects the parsed object, and diagnose returns
\* None without raising and without changing the session state.
C19_OracleFailureIsNone ==
    [][ pc' # pc =>
          /\ UNCHANGED session_vars
          /\ Malformed(oracle_response) =>
                /\ pc' = "result_validated" => is_valid' = FALSE
                /\ pc' = "diagnosed" => diagnosis'.is_none ]_vars

\* C19 witness: diagnose returned None on a parsed object with all four fields
\* that lists a friction without an evidence entry
C19_EvidenceMissing ==
    /\ pc = "diagnosed"
    /\ oracle_response.kind = "json"
    /\ oracle_response.result.keys = required_keys
    /\ oracle_response.result.frictions_detected.type = "list"
    /\ oracle_response.result.evidence.type = "dict"
    /\ oracle_response.result.frictions_detected.items
           = << "Access friction", "Cognitive load friction" >>
    /\ oracle_response.result.evidence.keys = {"Access friction"}
    /\ diagnosis.is_none

InitialSession ==
    /\ signal_history = << >>
    /\ adaptation_history = << >>
    /\ current_adaptation = "None"
    /\ \A f \in FrictionTypeSet : friction_scores[f] = 0
    /\ \A s \in StepIds : error_counts[s] = 0
    /\ \A s \in StepIds : hint_counters[s] = 0
    /\ \A s \in StepIds : step_completion_times[s] = "None"
    /\ \A s \in StepIds : hint_used[s] = FALSE
    /\ current_step_id = 0
    /\ content_generated = FALSE
    /\ detected_device = "None"
    /\ form_message = "None"

\* C21: session reset discards everything: from any reachable state the reset
\* leads to the initial state (both histories empty, no adaptation, the five
\* scores 0, error counts, hint counters and completion times empty, step 0),
\* which is the state a new session starts from, so that nothing of the
\* previous session can influence later passes.
C21_ResetDiscardsAll ==
    [][ ResetSession => (InitialSession' /\ Init') ]_vars

\* C21 witness: a state the reset acts on in which the histories, the adaptation,
\* the scores, the error counts, the step index and the completion time of the
\* first step all differ from their initial values
C21_FullSession ==
    /\ signal_history # << >>
    /\ adaptation_history # << >>
    /\ current_adaptation # "None"
    /\ \E f \in FrictionTypeSet : friction_scores[f] > 0
    /\ \E s \in StepIds : error_counts[s] > 0
    /\ current_step_id > 0
    /\ step_completion_times[0] \in {4, 50}
    /\ form_message # "None"
    /\ pc = "session"

\* the pass since which an adaptation has been active without interruption
ActiveSince ==
    CHOOSE k \in DOMAIN pass_log :
        /\ \A j \in k..Len(pass_log) : pass_log[j].current_adaptation # "None"
        /\ k > 1 => pass_log[k - 1].current_adaptation = "None"

SessionComplete == content_generated /\ current_step_id = NumSteps

EarlierErrors(history, step) ==
    Cardinality({ j \in DOMAIN history : history[j].step_id = step /\ ~history[j].correct })

\* C24: the retry_count of a new signal for step s is error_counts[s] as it
\* stood before the submission, which is the number of earlier submissions on
\* step s recorded as errors; the submission itself is not counted.
C24_RetryCountBefore ==
    [][ AnswerPass =>
          /\ NewSignal.step_id = current_step_id
          /\ NewSignal.retry_count = error_counts[current_step_id]
          /\ NewSignal.retry_count = EarlierErrors(signal_history, current_step_id)
          /\ error_counts'[current_step_id]
                = EarlierErrors(signal_history', current_step_id) ]_vars

\* C24 witness: a third submission on a step, after two errors on it and an
\* error on an earlier step
C24_ThirdSubmission ==
    /\ pc = "session"
    /\ Len(signal_history) >= 4
    /\ LET last == signal_history[Len(signal_history)]
       IN  /\ last.retry_count = 2
           /\ last.step_id > 0
           /\ ~last.correct
           /\ error_counts[last.step_id] = 3
           /\ error_counts[0] = 1

\* the keywords of the five families, in their order of priority
FamilyKeywords ==
    << {"pace", "time", "progress", "checkpoint"},
       {"structure", "break", "organize", "chunk"},
       {"sequence", "order", "arrange"},
       {"feedback", "hint", "confirm"},
       {"context", "frame", "relevance", "application"} >>

\* the families one of whose keywords occurs in the text
FamiliesOf(text) ==
    { i \in DOMAIN FamilyKeywords :
          \E term \in FamilyKeywords[i] : OccursIn(Chars(term), Chars(text)) }

\* the earliest family of the text, 0 if it has none
FirstFamily(text) ==
    IF FamiliesOf(text) = {} THEN 0
    ELSE CHOOSE i \in FamiliesOf(text) : \A j \in FamiliesOf(text) : i <= j

\* the transformation of one family alone
FamilyTransformation(family, unit, text) ==
    CASE family = 1 -> apply_pacing_adaptation(unit, text)
      [] family = 2 -> apply_structure_adaptation(unit, text)
      [] family = 3 -> apply_sequencing_adaptation(unit, text)
      [] family = 4 -> apply_feedback_adaptation(unit, text)
      [] family = 5 -> apply_contextual_adaptation(unit, text)
      [] OTHER -> unit

\* C25: AdaptationApplier.apply_adaptation applies the transformation of at most
\* one family: the earliest, in the order pacing, structure, sequencing,
\* feedback, contextual, with a keyword in the text; a text of several families
\* gets only that of the earliest, a text of none gets no category
\* transformation, only the optional style annotation and the marking.
C25_FirstFamilyOnly ==
    pc = "applier_once" =>
        LET family == FirstFamily(current_adaptation)
            transformed == FamilyTransformation(family, learning_step, current_adaptation)
            styled == IF explanation_style = "None" THEN transformed
                      ELSE apply_explanation_style(transformed, explanation_style)
        IN  /\ \A field \in DOMAIN learning_step : adapted_step[field] = styled[field]
            /\ DOMAIN adapted_step
                  = DOMAIN learning_step \cup {"adaptation_applied", "is_adapted"}
            /\ family = 0 =>
                  /\ adapted_step.task = learning_step.task
                  /\ explanation_style \in {"None", "none"}
                        => adapted_step.content = learning_step.content

\* C25 witness: a text with keywords of the pacing and the structure family got
\* the pacing marker and no bullets
C25_PacingBeforeStructure ==
    /\ pc = "applier_once"
    /\ current_adaptation = "Organize content and add progress checkpoints"
    /\ FamiliesOf(current_adaptation) = {1, 2}
    /\ explanation_style = "None"
    /\ adapted_step.content = learning_step.content \o pacing_elements[1]
    /\ CountPiece(adapted_step.content, Bullet) = 0

\* C26: whenever AdaptationApplier.apply_adaptation classifies the text into one
\* of the five categories, the returned unit carries the category's annotation,
\* so that its content or its task differs from the input's.
C26_CategoryAnnotates ==
    (pc = "applier_once" /\ FirstFamily(current_adaptation) # 0)
        => \/ adapted_step.content # learning_step.content
           \/ adapted_step.task # learning_step.task

\* C27: when the oracle answers with a well-formed result (the four fields, a
\* list of frictions, a mapping with an evidence entry for each of them),
\* diagnose returns that result and not the "unavailable" value.
C27_WellFormedReturned ==
    (pc = "diagnosed" /\ ~Malformed(oracle_response))
        => /\ ~diagnosis.is_none
           /\ diagnosis.result = oracle_response.result

\* C28: current_adaptation is non-null if and only if adaptation_history is
\* non-empty and its last record is an active (not cleared) one, whose text is
\* then current_adaptation; every cleared record is immediately preceded by the
\* active record of the same text.
C28_AdaptationMatchesHistory ==
    pc = "session" =>
        /\ current_adaptation # "None"
              <=> /\ adaptation_history # << >>
                  /\ ~IsClearedRecord(adaptation_history[Len(adaptation_history)])
        /\ current_adaptation # "None"
              => adaptation_history[Len(adaptation_history)].adaptation
                     = current_adaptation
        /\ \A i \in DOMAIN adaptation_history :
              IsClearedRecord(adaptation_history[i])
                  => /\ i > 1
                     /\ ~IsClearedRecord(adaptation_history[i - 1])
                     /\ adaptation_history[i - 1].adaptation
                            = adaptation_history[i].adaptation

\* C28 witness: an adaptation was applied and cleared, and another one is
\* active after it
C28_ActiveAfterCleared ==
    /\ pc = "session"
    /\ Len(adaptation_history) >= 3
    /\ IsClearedRecord(adaptation_history[Len(adaptation_history) - 1])
    /\ ~IsClearedRecord(adaptation_history[Len(adaptation_history)])
    /\ current_adaptation = adaptation_history[Len(adaptation_history)].adaptation

\* C29: within a session the current step never decreases; it increases by
\* exactly one after an answer the flexible matcher judges correct, and not at
\* all after an answer it judges incorrect, an empty submission or a hint
\* request; the session is complete exactly when the step equals the number of
\* task units, and no signal is recorded after completion.
C29_StepProgression ==
    [][ ~ResetSession =>
          /\ current_step_id' >= current_step_id
          /\ current_step_id' <= NumSteps
          /\ AnswerPass =>
                /\ current_step_id < NumSteps
                /\ form_message' = "success" => current_step_id' = current_step_id + 1
                /\ form_message' = "error" => current_step_id' = current_step_id
                /\ form_message' \in {"success", "error"}
          /\ ~AnswerPass => current_step_id' = current_step_id
          /\ current_step_id = NumSteps => signal_history' = signal_history ]_vars

\* C29 witness: the session is complete after six answers, one of them
\* incorrect, and a hint
C29_CompleteWithError ==
    /\ pc = "session"
    /\ content_generated
    /\ current_step_id = NumSteps
    /\ Len(signal_history) = MaxSignals
    /\ error_counts[0] = 1
    /\ \A i \in 2..Len(signal_history) : signal_history[i].correct
    /\ signal_history[2].hint_used

(***************************************************************************)
(* Typed answers: a session on task units without options, whose answers   *)
(* are typed into the text input.  The units share one correct answer, kept *)
(* in learning_step; the learner types any of a set of texts.               *)
(***************************************************************************)
\* bound of the model: the answers typed in a session
MaxAnswers == 3

\* correct answers of the units: none is the empty string
CorrectTexts == {"A list", "a list.", " ", "an ordered list"}

\* what the learner types: none is the empty string (that is SubmitEmptyAnswer)
TypedTexts ==
    {"A list", "a list", " A List ", "a list.", "list", "A tuple", " ", "."}

TypedInit ==
    /\ content_generated = TRUE
    /\ detected_device = "desktop"
    /\ signal_history = << >>
    /\ friction_scores = ZeroScores
    /\ current_adaptation = "None"
    /\ adaptation_history = << >>
    /\ error_counts = [s \in StepIds |-> 0]
    /\ current_step_id = 0
    /\ hint_used = [s \in StepIds |-> FALSE]
    /\ hint_counters = [s \in StepIds |-> 0]
    /\ step_completion_times = [s \in StepIds |-> "None"]
    /\ form_message = "None"
    /\ pass_log = << >>
    /\ pc = "typing"
    /\ adaptation_text = << >>
    /\ is_valid = "None"
    /\ explanation_style = "None"
    /\ learning_step \in { [correct_answer |-> t] : t \in CorrectTexts }
    /\ adapted_step = "None"
    /\ oracle_response = "None"
    /\ diagnosis = "None"

\* _render_learning_experience, "if submitted:" with the text user_answer typed
\* into st.text_input, after interaction_time seconds, at the measured latency
SubmitTypedAnswer(user_answer, interaction_time, latency) ==
    /\ pc = "typing"
    /\ content_generated
    /\ current_step_id < NumSteps
    /\ Len(signal_history) < MaxAnswers
    /\ LET step == current_step_id
           signals == collect_post_step_signals(
                          step, strict_is_correct(user_answer, learning_step.correct_answer),
                          interaction_time, hint_used[step], get_difficulty(step),
                          error_counts[step], latency, detected_device)
           history == Append(signal_history, signals)
           scores == update_friction_scores(history, friction_scores)
           is_correct == check_answer_flexible(user_answer, learning_step.correct_answer)
       IN  /\ signal_history' = history
           /\ friction_scores' = scores
           /\ IF is_correct
              THEN LET cleared == evaluate_and_clear_adaptation(
                                      history, current_adaptation, adaptation_history)
                   IN  /\ step_completion_times' =
                              [step_completion_times EXCEPT ![step] = interaction_time]
                       /\ hint_used' = [hint_used EXCEPT ![step] = FALSE]
                       /\ hint_counters' = [hint_counters EXCEPT ![step] = 0]
                       /\ current_adaptation' = cleared.current_adaptation
                       /\ adaptation_history' = cleared.adaptation_history
                       /\ current_step_id' = current_step_id + 1
                       /\ UNCHANGED error_counts
              ELSE LET adapted == IF Len(history) >= 2
                                  THEN diagnose_and_adapt(history, scores,
                                                          current_adaptation,
                                                          adaptation_history)
                                  ELSE [current_adaptation |-> current_adaptation,
                                        adaptation_history |-> adaptation_history]
                   IN  /\ error_counts' = [error_counts EXCEPT ![step] = @ + 1]
                       /\ current_adaptation' = adapted.current_adaptation
                       /\ adaptation_history' = adapted.adaptation_history
                       /\ UNCHANGED << step_completion_times, hint_used, hint_counters,
                                       current_step_id >>
           /\ form_message' = IF is_correct THEN "success" ELSE "error"
    /\ pass_log' = Append(pass_log, [current_adaptation |-> current_adaptation',
                                     records |-> Len(adaptation_history')])
    /\ UNCHANGED << content_generated, detected_device, pc >>
    /\ UNCHANGED call_vars

TypedNext ==
    \E user_answer \in TypedTexts, ob \in Observations :
        SubmitTypedAnswer(user_answer, ob[1], ob[2])

TypedSpec == TypedInit /\ [][TypedNext]_vars

\* C30: the two correctness checks never disagree in the direction that records
\* an error without an incorrect signal: with non-empty correct answers, for
\* every step s, error_counts[s] is at most the number of signals of step s
\* with correct = false.
C30_ErrorsAreIncorrectSignals ==
    pc = "typing" =>
        \A s \in StepIds : error_counts[s] <= EarlierErrors(signal_history, s)

\* C30 witness: the checks disagreed in the other direction: an answer the
\* flexible matcher accepted is recorded as an incorrect signal, and an error
\* was counted on a later step
C30_AcceptedButIncorrect ==
    /\ pc = "typing"
    /\ learning_step.correct_answer = "A list"
    /\ Len(signal_history) = 3
    /\ ~signal_history[1].correct
    /\ signal_history[1].step_id = 0
    /\ error_counts[0] = 0
    /\ current_step_id = 1
    /\ error_counts[1] = 2

====
